---- MODULE Spec2Model ----
(***************************************************************************)
(* Model of the Fusion2SCAD exporter: the two-pass timeline compiler       *)
(* SCADExporter.process_timeline (src/exporter/core.py), the feature       *)
(* analyzers it calls (src/exporter/analyzers.py) and the profile shape    *)
(* classifiers (src/profile_utils.py, src/exporter/analyzers.py).  Later   *)
(* sections model the point and number utilities, the analyzers of holes   *)
(* and sketch planes, repeated exports, the debug record and the export    *)
(* command (src/ui/handlers.py), each under a specification of its own.    *)
(*                                                                         *)
(* Numbers are exact fixed-point values: an integer n stands for the real  *)
(* number n / Scale, both for host values (centimetres) and for exported   *)
(* values (millimetres).                                                   *)
(***************************************************************************)
EXTENDS Integers, Sequences, FiniteSets, TLC

(***************************************************************************)
(* Bounds of the model.                                                    *)
(***************************************************************************)
\* longest timeline of the general specification
MaxTimeline == 3
\* longest timeline of the tree-assembly specification
MaxTreeTimeline == 4
\* most lines one generated fragment holds
MaxFragLines == 2
\* most curves of a freely composed profile loop
MaxCurves == 4
\* most loops of a profile
MaxLoops == 2

(***************************************************************************)
(* Program constants.                                                      *)
(***************************************************************************)
\* fixed-point scale: n stands for n / Scale
Scale == 10 ^ 5
\* src/exporter/utils.py:7, src/profile_utils.py:7
CM_TO_MM == 10
\* src/exporter/core.py:240  len(current_ops['union']) > 3
UnionWrapThreshold == 3

Max(a, b) == IF a >= b THEN a ELSE b

(***************************************************************************)
(* The host model: bodies and timeline items.                              *)
(***************************************************************************)
Bodies == {"Body1", "Body2"}

\* body.entityToken: the host's low-level identity of a body
entityToken(b) == IF b = "Body1" THEN "token1" ELSE "token2"

\* adsk.fusion.FeatureOperations; NewComponent is not in op_map
FeatureOperations == {"NewBody", "Join", "Cut", "Intersect", "NewComponent"}

\* One edge set of a fillet / chamfer: constant says whether it is a
\* ConstantRadiusFilletEdgeSet / EqualDistanceChamferEdgeSet, value is the
\* raw radius / distance in cm, bodies are the bodies of its edges.
EdgeSet(constant, value, bodies) ==
    [constant |-> constant, value |-> value, bodies |-> bodies]

\* A timeline item as the exporter sees it.
\*   kind      the class of item.entity ("None": entity is None)
\*   operation feature.operation (Extrude, Revolve)
\*   bodies    entity.bodies, the names in iteration order
\*   raises    "analysis": an accessor read by the analyzer raises;
\*             "profile": feature.profile is one Profile whose bounding box
\*             or curves raise; "profiles": it is a collection whose first
\*             profile does; "generate": the generator raises; else "none"
\*   nlines    the number of lines the generator returns for it
\*   edgeSets  feature.edgeSets (Fillet, Chamfer)
Item(kind, operation, bodies, raises, nlines, edgeSets) ==
    [kind |-> kind, operation |-> operation, bodies |-> bodies,
     raises |-> raises, nlines |-> nlines, edgeSets |-> edgeSets]

Extrude(op, bodies, raises, n) == Item("Extrude", op, bodies, raises, n, <<>>)
Revolve(op, bodies, raises, n) == Item("Revolve", op, bodies, raises, n, <<>>)
Hole(raises, n) == Item("Hole", "NewBody", <<>>, raises, n, <<>>)
Fillet(edgeSets) == Item("Fillet", "NewBody", <<>>, "none", 0, edgeSets)
Chamfer(edgeSets) == Item("Chamfer", "NewBody", <<>>, "none", 0, edgeSets)
Sketch == Item("Sketch", "NewBody", <<>>, "none", 0, <<>>)
NoEntity == Item("None", "NewBody", <<>>, "none", 0, <<>>)

\* The timeline items of the general specification.
FeatureInputs ==
    {Extrude(op, <<"Body1">>, "none", 1) : op \in FeatureOperations}
    \cup {Extrude("NewBody", <<"Body1", "Body2">>, "none", MaxFragLines),
          Extrude("Intersect", <<"Body2">>, "analysis", 1),
          Extrude("NewBody", <<"Body2">>, "generate", 1),
          Revolve("Cut", <<"Body2">>, "none", 1),
          Hole("none", 1),
          Hole("analysis", 1),
          Sketch, NoEntity,
          Fillet(<<EdgeSet(TRUE, Scale \div 10, {"Body1"})>>),
          Fillet(<<EdgeSet(TRUE, (3 * Scale) \div 10, {"Body1", "Body2"})>>),
          Chamfer(<<EdgeSet(TRUE, (3 * Scale) \div 10, {"Body1"})>>)}

\* The timeline items of the tree-assembly specification: features that are
\* analysed and generated without error, with fragments of 1..MaxFragLines lines.
TreeInputs ==
    {Extrude(op, <<"Body1">>, "none", n) :
        op \in {"NewBody", "Cut"}, n \in 1..MaxFragLines}
    \cup {Extrude("Intersect", <<"Body2">>, "none", 1), Hole("none", 1)}

Timelines(items, maxLen) == UNION {[1..n -> items] : n \in 0..maxLen}

(***************************************************************************)
(* State.                                                                  *)
(***************************************************************************)
VARIABLES
    timeline,              \* design.timeline, the input snapshot
    pc,                    \* position of process_timeline
    i,                     \* pass 1: next timeline index (1-based)
    features_data,         \* ordered feature list
    feature_to_body_name,  \* position in features_data -> body name
    body_modifiers,        \* body name -> accumulated modifiers
    scad_code,             \* the lines process_timeline returns
    current_ops,           \* pass 2: the three boolean buckets
    default_modifiers,     \* pass 2: shared default modifier record
    idx,                   \* pass 2: next position in features_data
    gen_calls,             \* the generator calls made so far, in order
    profile,               \* classifier: the profile under analysis
    shape,                 \* classifier: results of both classifiers
    points,                \* remove_duplicate_points: the argument
    cleaned,               \* remove_duplicate_points: the result, once returned
    number,                \* format_value: the argument
    text,                  \* format_value: the texts returned so far
    lengths,               \* raw host lengths (cm) read by the ingestion paths
    stored,                \* what each ingestion path stored for them
    handler,               \* ExportCommandExecuteHandler.notify: its position
    files,                 \* the two output files on disk
    loops,                 \* extract_profile_polygon: the profile's loops
    polygon,               \* extract_profile_polygon: the result, once returned
    hole,                  \* analyze_hole_feature: the feature
    hole_info,             \* analyze_hole_feature: the result, once returned
    extrude,               \* analyze_extrude_feature: the feature
    extrude_info,          \* analyze_extrude_feature: the result, once returned
    design,                \* the live design an exporter holds
    exporter,              \* one SCADExporter and the scripts it returned
    debug_timeline,        \* export_debug_json: the timeline it walks
    debug_data,            \* export_debug_json: position and record
    coordinate,            \* the renderers: the value to render
    rendered               \* the renderers: renderer -> text returned

vars == <<timeline, pc, i, features_data, feature_to_body_name, body_modifiers,
          scad_code, current_ops, default_modifiers, idx, gen_calls,
          profile, shape, points, cleaned, number, text, lengths, stored,
          handler, files, loops, polygon, hole, hole_info, extrude,
          extrude_info, design, exporter, debug_timeline, debug_data,
          coordinate, rendered>>

polygonVars == <<loops, polygon>>
holeVars == <<hole, hole_info>>
planeVars == <<extrude, extrude_info>>
exporterVars == <<design, exporter>>
debugVars == <<debug_timeline, debug_data>>
renderVars == <<coordinate, rendered>>
laterVars == <<polygonVars, holeVars, planeVars, exporterVars, debugVars,
               renderVars>>

\* the state of the parts that a specification of another part leaves alone
auxVars == <<points, cleaned, number, text, lengths, stored, handler, files,
             laterVars>>

timelineVars == <<timeline, pc, i, features_data, feature_to_body_name,
                  body_modifiers, scad_code, current_ops, default_modifiers,
                  idx, gen_calls>>

(***************************************************************************)
(* Dictionaries and script lines.                                          *)
(***************************************************************************)
\* dict[k] = v
Put(d, k, v) == [x \in DOMAIN d \cup {k} |-> IF x = k THEN v ELSE d[x]]

\* the key of dict.get(idx) when idx is absent: None
NoBody == "None"

\* a script line: indent counts the 4-space prefixes put before the text;
\* feat is the timeline index of the feature a line was made for (0: none),
\* k the line's position in its fragment
Line(indent, kind, feat, k) == [indent |-> indent, kind |-> kind, feat |-> feat, k |-> k]

\* f"    {line}" applied n times
Indented(n, lines) == [j \in 1..Len(lines) |-> [lines[j] EXCEPT !.indent = @ + n]]

ZeroModifiers ==
    [rounding |-> 0, chamfer |-> 0, rounding_edges |-> {}, chamfer_edges |-> {}]

EmptyModifierTable == [b \in {} |-> ZeroModifiers]
EmptyBodyNames == [p \in {} |-> NoBody]
EmptyOps == [union |-> <<>>, difference |-> <<>>, intersection |-> <<>>]

(***************************************************************************)
(* Feature analyzers (src/exporter/analyzers.py).                          *)
(***************************************************************************)
get_operation_type(operation) ==
    CASE operation = "NewBody" -> "new"
      [] operation = "Join" -> "union"
      [] operation = "Cut" -> "difference"
      [] operation = "Intersect" -> "intersection"
      [] OTHER -> "union"

\* analyze_extrude_feature / analyze_revolve_feature read the extent and the
\* profiles outside any try block: a raising accessor propagates.
\* analyze_hole_feature reads everything inside one try block.
\* analyze_fillet_feature / analyze_chamfer_feature read edgeSets outside try.
\* analyze_profile has no try block: when feature.profile is a single Profile
\* whose bounding box or curves raise ("profile"), the raise propagates too.
AnalysisRaises(item) ==
    \/ item.kind \in {"Extrude", "Revolve", "Fillet", "Chamfer"} /\ item.raises = "analysis"
    \/ item.kind \in {"Extrude", "Revolve"} /\ item.raises = "profile"

\* result['profiles']: one entry per analysed profile.  When feature.profile
\* is a collection whose first profile raises in analyze_profile
\* ("profiles"), the raise is swallowed by the try block around the loop and
\* nothing is appended.
AnalysedProfiles(item) ==
    IF item.raises = "profiles" THEN <<>> ELSE <<"analysed">>

analyze_extrude_feature(item) ==
    [type |-> "extrude", operation |-> get_operation_type(item.operation),
     profiles |-> AnalysedProfiles(item)]

analyze_revolve_feature(item) ==
    [type |-> "revolve", operation |-> get_operation_type(item.operation),
     profiles |-> AnalysedProfiles(item)]

analyze_hole_feature(item) == [type |-> "hole"]

\* the value and bodies the analyzer takes from edge_sets.item(0)
FirstEdgeSetValue(item) ==
    IF Len(item.edgeSets) > 0 /\ item.edgeSets[1].constant
    THEN item.edgeSets[1].value * CM_TO_MM
    ELSE 0

FirstEdgeSetTokens(item) ==
    IF Len(item.edgeSets) > 0 /\ item.edgeSets[1].constant
    THEN {entityToken(b) : b \in item.edgeSets[1].bodies}
    ELSE {}

analyze_fillet_feature(item) ==
    [type |-> "fillet", radius |-> FirstEdgeSetValue(item), edges |-> <<>>,
     affected_bodies |-> FirstEdgeSetTokens(item)]

analyze_chamfer_feature(item) ==
    [type |-> "chamfer", distance |-> FirstEdgeSetValue(item),
     affected_bodies |-> FirstEdgeSetTokens(item)]

(***************************************************************************)
(* Code generators.  generate_extrude_scad, generate_revolve_scad and      *)
(* generate_hole_scad return the list of lines of one fragment, or raise.  *)
(***************************************************************************)
\* the value recorded for a modifier argument the call does not pass
NoArg == 0 - 1

GenerateRaises(item) == item.raises = "generate"

\* the lines of the fragment generated for timeline item n
FragmentLines(item, n) == [k \in 1..item.nlines |-> Line(0, "code", n, k)]

(***************************************************************************)
(* Pass 1 of process_timeline (src/exporter/core.py:88-182).               *)
(* s is the record of the run's collections.                               *)
(***************************************************************************)
\* mutant: the failure is swallowed without a comment
ErrorAnalyzing_silent(s, n) == s

ErrorAnalyzing(s, n) ==
    [s EXCEPT !.scad_code = Append(@, Line(0, "// Error analyzing", n, 0))]

\* for body in entity.bodies: record the name, create a zero entry if absent
RECURSIVE RegisterBodies(_, _, _)
RegisterBodies(s, pos, bodies) ==
    IF bodies = <<>> THEN s
    ELSE LET body_name == Head(bodies)
             t == [s EXCEPT
                     !.feature_to_body_name = Put(@, pos, body_name),
                     !.body_modifiers =
                         IF body_name \in DOMAIN @ THEN @
                         ELSE Put(@, body_name, ZeroModifiers)]
         IN  RegisterBodies(t, pos, Tail(bodies))

\* features_data.append((entity, feature_name, info, feature_type))
AppendFeature(s, n, info, feature_type) ==
    [s EXCEPT !.features_data =
        Append(@, [entity |-> n, feature_name |-> n, info |-> info,
                   feature_type |-> feature_type])]

\* max-merge of one modifier field into the entry of every named body
MergeModifier(bm, names, field, value) ==
    [b \in DOMAIN bm \cup names |->
        LET old == IF b \in DOMAIN bm THEN bm[b] ELSE ZeroModifiers
        IN  IF b \in names
            THEN [old EXCEPT ![field] = Max(@, value)]
            ELSE old]

\* mutant: the branch reads the key the analyzers return
ApplyModifierFeature_bodiesKey(s, n, info, field, valueKey) ==
    [s EXCEPT !.body_modifiers =
        MergeModifier(@, info["affected_bodies"], field, info[valueKey])]

\* the Fillet / Chamfer branch: info['affected_body_names'] raises KeyError
\* when the analyzer's result has no such key
ApplyModifierFeature(s, n, info, field, valueKey) ==
    IF "affected_body_names" \notin DOMAIN info
    THEN ErrorAnalyzing(s, n)
    ELSE [s EXCEPT !.body_modifiers =
            MergeModifier(@, info["affected_body_names"], field, info[valueKey])]

\* one iteration of the pass-1 loop, for timeline item n
Pass1Item(s, item, n) ==
    IF item.kind = "None" THEN s
    ELSE IF AnalysisRaises(item) THEN ErrorAnalyzing(s, n)
    ELSE CASE item.kind = "Extrude" ->
                LET t == AppendFeature(s, n, analyze_extrude_feature(item), "extrude")
                IN  RegisterBodies(t, Len(t.features_data), item.bodies)
           [] item.kind = "Revolve" ->
                LET t == AppendFeature(s, n, analyze_revolve_feature(item), "revolve")
                IN  RegisterBodies(t, Len(t.features_data), item.bodies)
           [] item.kind = "Hole" ->
                AppendFeature(s, n, analyze_hole_feature(item), "hole")
           [] item.kind = "Fillet" ->
                ApplyModifierFeature(s, n, analyze_fillet_feature(item),
                                     "rounding", "radius")
           [] item.kind = "Chamfer" ->
                ApplyModifierFeature(s, n, analyze_chamfer_feature(item),
                                     "chamfer", "distance")
           [] OTHER -> s

(***************************************************************************)
(* Pass 2 of process_timeline (src/exporter/core.py:184-226).              *)
(***************************************************************************)
\* feature_to_body_name.get(idx)
BodyNameOf(fb, pos) == IF pos \in DOMAIN fb THEN fb[pos] ELSE NoBody

\* body_modifiers.get(body_name, default_modifiers)
ModifiersOf(bm, body_name, dflt) ==
    IF body_name \in DOMAIN bm THEN bm[body_name] ELSE dflt

\* mutant: the lookup inserts the default (setdefault instead of get)
TableAfterLookup_setdefault(bm, body_name, dflt) ==
    IF body_name \in DOMAIN bm THEN bm ELSE Put(bm, body_name, dflt)

\* the modifier table after the lookup of pass 2: dict.get inserts nothing
TableAfterLookup(bm, body_name, dflt) == bm

\* mutant: a revolve is routed by its operation, like an extrude
Route_revolveByOperation(feature_type, info) ==
    CASE feature_type \in {"extrude", "revolve"} ->
            (CASE info.operation \in {"new", "union"} -> "union"
               [] info.operation = "difference" -> "difference"
               [] info.operation = "intersection" -> "intersection"
               [] OTHER -> "none")
      [] feature_type = "hole" -> "difference"
      [] OTHER -> "none"

\* the bucket a generated fragment is extended into ("none": no bucket)
Route(feature_type, info) ==
    CASE feature_type = "extrude" ->
            (CASE info.operation \in {"new", "union"} -> "union"
               [] info.operation = "difference" -> "difference"
               [] info.operation = "intersection" -> "intersection"
               [] OTHER -> "none")
      [] feature_type = "revolve" -> "union"
      [] feature_type = "hole" -> "difference"
      [] OTHER -> "none"

\* the generator call made for an entry: only generate_extrude_scad is
\* passed the modifiers
GeneratorCall(entry, modifiers) ==
    IF entry.feature_type = "extrude"
    THEN [feat |-> entry.entity, generator |-> "generate_extrude_scad",
          rounding |-> modifiers.rounding, chamfer |-> modifiers.chamfer]
    ELSE [feat |-> entry.entity,
          generator |-> IF entry.feature_type = "revolve"
                        THEN "generate_revolve_scad" ELSE "generate_hole_scad",
          rounding |-> NoArg, chamfer |-> NoArg]

ErrorGenerating(s, n) ==
    [s EXCEPT !.scad_code = Append(@, Line(0, "// Error generating", n, 0))]

\* mutant: a fragment is put in front of what its bucket holds
Pass2Item_prepend(s, entry, pos, item) ==
    LET body_name == BodyNameOf(s.feature_to_body_name, pos)
        modifiers == ModifiersOf(s.body_modifiers, body_name, s.default_modifiers)
        t == [s EXCEPT
                !.body_modifiers = TableAfterLookup(@, body_name, s.default_modifiers),
                !.gen_calls = Append(@, GeneratorCall(entry, modifiers))]
        bucket == Route(entry.feature_type, entry.info)
    IN  IF GenerateRaises(item) THEN ErrorGenerating(t, entry.feature_name)
        ELSE IF bucket = "none" THEN t
        ELSE [t EXCEPT !.current_ops[bucket] =
                FragmentLines(item, entry.feature_name) \o @]

\* one iteration of the pass-2 loop, for features_data[pos]
Pass2Item(s, entry, pos, item) ==
    LET body_name == BodyNameOf(s.feature_to_body_name, pos)
        modifiers == ModifiersOf(s.body_modifiers, body_name, s.default_modifiers)
        t == [s EXCEPT
                !.body_modifiers = TableAfterLookup(@, body_name, s.default_modifiers),
                !.gen_calls = Append(@, GeneratorCall(entry, modifiers))]
        bucket == Route(entry.feature_type, entry.info)
    IN  IF GenerateRaises(item) THEN ErrorGenerating(t, entry.feature_name)
        ELSE IF bucket = "none" THEN t
        ELSE [t EXCEPT !.current_ops[bucket] =
                @ \o FragmentLines(item, entry.feature_name)]

(***************************************************************************)
(* Tree assembly (src/exporter/core.py:228-246).                           *)
(***************************************************************************)
\* mutant: the nested union block is opened and not closed
Combine_unclosedUnion(ops) ==
    IF ops.difference # <<>>
    THEN <<Line(0, "difference() {", 0, 0)>>
         \o (IF ops.union # <<>>
             THEN <<Line(1, "union() {", 0, 0)>>
                  \o Indented(2, ops.union)
             ELSE <<>>)
         \o Indented(1, ops.difference)
         \o <<Line(0, "}", 0, 0)>>
    ELSE IF ops.union # <<>>
    THEN IF Len(ops.union) > UnionWrapThreshold
         THEN <<Line(0, "union() {", 0, 0)>>
              \o Indented(1, ops.union)
              \o <<Line(0, "}", 0, 0)>>
         ELSE ops.union
    ELSE <<>>

\* mutant: the union bucket is not nested in its own union block
Combine_flatUnion(ops) ==
    IF ops.difference # <<>>
    THEN <<Line(0, "difference() {", 0, 0)>>
         \o Indented(1, ops.union)
         \o Indented(1, ops.difference)
         \o <<Line(0, "}", 0, 0)>>
    ELSE IF ops.union # <<>>
    THEN IF Len(ops.union) > UnionWrapThreshold
         THEN <<Line(0, "union() {", 0, 0)>>
              \o Indented(1, ops.union)
              \o <<Line(0, "}", 0, 0)>>
         ELSE ops.union
    ELSE <<>>

\* mutant: the union block is opened from 3 lines on (>= for >)
Combine_wrapFromThree(ops) ==
    IF ops.difference # <<>>
    THEN <<Line(0, "difference() {", 0, 0)>>
         \o (IF ops.union # <<>>
             THEN <<Line(1, "union() {", 0, 0)>>
                  \o Indented(2, ops.union)
                  \o <<Line(1, "}", 0, 0)>>
             ELSE <<>>)
         \o Indented(1, ops.difference)
         \o <<Line(0, "}", 0, 0)>>
    ELSE IF ops.union # <<>>
    THEN IF Len(ops.union) >= UnionWrapThreshold
         THEN <<Line(0, "union() {", 0, 0)>>
              \o Indented(1, ops.union)
              \o <<Line(0, "}", 0, 0)>>
         ELSE ops.union
    ELSE <<>>

\* mutant: the intersection bucket is merged into the tree
Combine_withIntersection(ops) ==
    IF ops.difference # <<>>
    THEN <<Line(0, "difference() {", 0, 0)>>
         \o (IF ops.union # <<>>
             THEN <<Line(1, "union() {", 0, 0)>>
                  \o Indented(2, ops.union)
                  \o <<Line(1, "}", 0, 0)>>
             ELSE <<>>)
         \o Indented(1, ops.difference)
         \o <<Line(0, "}", 0, 0)>>
         \o ops.intersection
    ELSE IF ops.union # <<>>
    THEN (IF Len(ops.union) > UnionWrapThreshold
          THEN <<Line(0, "union() {", 0, 0)>>
               \o Indented(1, ops.union)
               \o <<Line(0, "}", 0, 0)>>
          ELSE ops.union) \o ops.intersection
    ELSE ops.intersection

Combine(ops) ==
    IF ops.difference # <<>>
    THEN <<Line(0, "difference() {", 0, 0)>>
         \o (IF ops.union # <<>>
             THEN <<Line(1, "union() {", 0, 0)>>
                  \o Indented(2, ops.union)
                  \o <<Line(1, "}", 0, 0)>>
             ELSE <<>>)
         \o Indented(1, ops.difference)
         \o <<Line(0, "}", 0, 0)>>
    ELSE IF ops.union # <<>>
    THEN IF Len(ops.union) > UnionWrapThreshold
         THEN <<Line(0, "union() {", 0, 0)>>
              \o Indented(1, ops.union)
              \o <<Line(0, "}", 0, 0)>>
         ELSE ops.union
    ELSE <<>>

(***************************************************************************)
(* The run of process_timeline as a state machine.                         *)
(***************************************************************************)
RunState ==
    [features_data |-> features_data,
     feature_to_body_name |-> feature_to_body_name,
     body_modifiers |-> body_modifiers,
     scad_code |-> scad_code,
     current_ops |-> current_ops,
     default_modifiers |-> default_modifiers,
     gen_calls |-> gen_calls]

SetRunState(s) ==
    /\ features_data' = s.features_data
    /\ feature_to_body_name' = s.feature_to_body_name
    /\ body_modifiers' = s.body_modifiers
    /\ scad_code' = s.scad_code
    /\ current_ops' = s.current_ops
    /\ default_modifiers' = s.default_modifiers
    /\ gen_calls' = s.gen_calls

NoProfile == [loops |-> <<>>, bbox |-> <<0, 0, 0, 0>>]
NoShape == [phase |-> "idle"]

\* nothing was handed to remove_duplicate_points, format_value, the
\* ingestion paths or the export command
DedupIdle == points = <<>> /\ cleaned = <<>>
FormatIdle == number = 0 /\ text = <<>>
UnitsIdle == lengths = <<>> /\ stored = <<>>
HandlerIdle == handler = [pc |-> "idle"] /\ files = <<>>
PolygonIdle == loops = <<>> /\ polygon = <<>>
HoleIdle == hole = <<>> /\ hole_info = <<>>
PlaneIdle == extrude = <<>> /\ extrude_info = <<>>
ExporterIdle == design = <<>> /\ exporter = <<>>
DebugIdle == debug_timeline = <<>> /\ debug_data = <<>>
RenderIdle == coordinate = <<>> /\ rendered = <<>>
LaterIdle ==
    PolygonIdle /\ HoleIdle /\ PlaneIdle /\ ExporterIdle /\ DebugIdle
        /\ RenderIdle
AuxIdle ==
    DedupIdle /\ FormatIdle /\ UnitsIdle /\ HandlerIdle /\ LaterIdle

InitRun(timelines) ==
    /\ timeline \in timelines
    /\ pc = "idle"
    /\ i = 1
    /\ idx = 1
    /\ features_data = <<>>
    /\ feature_to_body_name = EmptyBodyNames
    /\ body_modifiers = EmptyModifierTable
    /\ scad_code = <<>>
    /\ current_ops = EmptyOps
    /\ default_modifiers = ZeroModifiers
    /\ gen_calls = <<>>
    /\ profile = NoProfile
    /\ shape = NoShape
    /\ AuxIdle

\* process_timeline is entered: lines 78-86
Begin ==
    /\ pc = "idle"
    /\ pc' = "pass1"
    /\ UNCHANGED <<timeline, i, idx, features_data, feature_to_body_name,
                   body_modifiers, scad_code, current_ops, default_modifiers,
                   gen_calls, profile, shape, auxVars>>

\* one iteration of the loop of lines 88-182
Pass1Step ==
    /\ pc = "pass1"
    /\ i <= Len(timeline)
    /\ SetRunState(Pass1Item(RunState, timeline[i], i))
    /\ i' = i + 1
    /\ UNCHANGED <<timeline, pc, idx, profile, shape, auxVars>>

\* mutant: pass 1 is left one item early (>= for >)
BeginPass2_early ==
    /\ pc = "pass1"
    /\ i >= Len(timeline)
    /\ pc' = "pass2"
    /\ current_ops' = EmptyOps
    /\ default_modifiers' = ZeroModifiers
    /\ idx' = 1
    /\ UNCHANGED <<timeline, i, features_data, feature_to_body_name,
                   body_modifiers, scad_code, gen_calls, profile, shape, auxVars>>

\* the loop of pass 1 ends; lines 185-192 create the buckets and the default
BeginPass2 ==
    /\ pc = "pass1"
    /\ i > Len(timeline)
    /\ pc' = "pass2"
    /\ current_ops' = EmptyOps
    /\ default_modifiers' = ZeroModifiers
    /\ idx' = 1
    /\ UNCHANGED <<timeline, i, features_data, feature_to_body_name,
                   body_modifiers, scad_code, gen_calls, profile, shape, auxVars>>

\* one iteration of the loop of lines 194-226
Pass2Step ==
    /\ pc = "pass2"
    /\ idx <= Len(features_data)
    /\ SetRunState(Pass2Item(RunState, features_data[idx], idx,
                             timeline[features_data[idx].entity]))
    /\ idx' = idx + 1
    /\ UNCHANGED <<timeline, pc, i, profile, shape, auxVars>>

\* lines 228-248: the tree is appended and the lines are returned
CombineStep ==
    /\ pc = "pass2"
    /\ idx > Len(features_data)
    /\ scad_code' = scad_code \o Combine(current_ops)
    /\ pc' = "done"
    /\ UNCHANGED <<timeline, i, idx, features_data, feature_to_body_name,
                   body_modifiers, current_ops, default_modifiers, gen_calls,
                   profile, shape, auxVars>>

Init == InitRun(Timelines(FeatureInputs, MaxTimeline))

Next == Begin \/ Pass1Step \/ BeginPass2 \/ Pass2Step \/ CombineStep

Spec == Init /\ [][Next]_vars

InitTree == InitRun(Timelines(TreeInputs, MaxTreeTimeline))

SpecTree == InitTree /\ [][Next]_vars

(***************************************************************************)
(* Profiles and the two shape classifiers.                                 *)
(***************************************************************************)
\* a profile curve: the class of curve.sketchEntity, its raw radius and
\* raw centre (cm)
Curve(kind, radius, center) == [kind |-> kind, radius |-> radius, center |-> center]

SketchLine == Curve("SketchLine", 0, <<0, 0>>)
SketchArc(r) == Curve("SketchArc", r, <<0, 0>>)
SketchCircle(r, c) == Curve("SketchCircle", r, c)
SketchEllipse == Curve("SketchEllipse", 0, <<0, 0>>)

\* raw arc radii: 0.2 cm, 0.20049 cm, 0.201 cm, 0.202 cm
ArcRadii ==
    {Scale \div 5, Scale \div 5 + 49, Scale \div 5 + 100, Scale \div 5 + 200}

CurveInputs ==
    {SketchLine, SketchArc(Scale \div 5), SketchEllipse,
     SketchCircle(Scale \div 2, <<0, 0>>)}

\* loops of 4 lines and 4 arcs in turn, and two 8-curve loops of another mix
EightCurveLoops ==
    {<<SketchLine, SketchArc(r[1]), SketchLine, SketchArc(r[2]),
       SketchLine, SketchArc(r[3]), SketchLine, SketchArc(r[4])>> :
        r \in [1..4 -> ArcRadii]}
    \cup {[j \in 1..8 |-> SketchLine],
          [j \in 1..8 |-> IF j <= 5 THEN SketchLine ELSE SketchArc(Scale \div 5)]}

LoopInputs ==
    UNION {[1..n -> CurveInputs] : n \in 0..MaxCurves}
    \cup {<<SketchCircle(Scale \div 4, <<Scale \div 2, 0>>)>>}
    \cup EightCurveLoops

\* bounding boxes <<min.x, min.y, max.x, max.y>> in raw cm
BBoxes ==
    {<<0 - Scale \div 2, 0 - Scale \div 2, Scale \div 2, Scale \div 2>>,
     <<0, 0, (5 * Scale) \div 4, Scale \div 2>>}

\* an inner loop of a profile with holes
InnerLoop == <<SketchCircle(Scale \div 10, <<0, 0>>)>>

Profiles ==
    {[loops |-> <<>>, bbox |-> b] : b \in BBoxes}
    \cup {[loops |-> [j \in 1..n |-> IF j = 1 THEN l ELSE InnerLoop], bbox |-> b] :
            l \in LoopInputs, b \in BBoxes, n \in 1..MaxLoops}

\* mutant: the tolerance is 0.1
RadiiTolerance_tenth == Scale \div 10

\* max(radii) - min(radii) < 0.01
RadiiTolerance == Scale \div 100

BBoxWidth(p) == (p.bbox[3] - p.bbox[1]) * CM_TO_MM
BBoxHeight(p) == (p.bbox[4] - p.bbox[2]) * CM_TO_MM
\* (min + max) / 2 * CM_TO_MM, exact
BBoxCenter(p) ==
    <<((p.bbox[1] + p.bbox[3]) * CM_TO_MM) \div 2,
      ((p.bbox[2] + p.bbox[4]) * CM_TO_MM) \div 2>>

\* the radii, in mm, of the arcs of a loop, in loop order
ArcRadiiOf(loop) ==
    LET arcs == SelectSeq(loop, LAMBDA c : c.kind = "SketchArc")
    IN  [j \in 1..Len(arcs) |-> arcs[j].radius * CM_TO_MM]

LineCount(loop) == Len(SelectSeq(loop, LAMBDA c : c.kind = "SketchLine"))

SeqMax(q) == CHOOSE m \in {q[j] : j \in 1..Len(q)} : \A j \in 1..Len(q) : q[j] <= m
SeqMin(q) == CHOOSE m \in {q[j] : j \in 1..Len(q)} : \A j \in 1..Len(q) : q[j] >= m

AllLines(loop) == \A j \in 1..4 : loop[j].kind = "SketchLine"

\* mutant: a 4-curve loop with any line in it is a rectangle (any for all)
detect_shape_type_anyLine(p) ==
    IF Len(p.loops) # 1 THEN [type |-> "polygon"]
    ELSE LET curves == p.loops[1]
         IN  IF Len(curves) = 1 /\ curves[1].kind = "SketchCircle"
             THEN [type |-> "circle",
                   center |-> <<curves[1].center[1] * CM_TO_MM,
                                curves[1].center[2] * CM_TO_MM>>,
                   radius |-> curves[1].radius * CM_TO_MM]
             ELSE IF Len(curves) = 4 /\ \E j \in 1..4 : curves[j].kind = "SketchLine"
             THEN [type |-> "rectangle", center |-> BBoxCenter(p),
                   width |-> BBoxWidth(p), height |-> BBoxHeight(p)]
             ELSE [type |-> "polygon"]

\* src/profile_utils.py:256-337
detect_shape_type(p) ==
    IF Len(p.loops) # 1 THEN [type |-> "polygon"]
    ELSE LET curves == p.loops[1]
             radii == ArcRadiiOf(curves)
         IN  IF Len(curves) = 1 /\ curves[1].kind = "SketchCircle"
             THEN [type |-> "circle",
                   center |-> <<curves[1].center[1] * CM_TO_MM,
                                curves[1].center[2] * CM_TO_MM>>,
                   radius |-> curves[1].radius * CM_TO_MM]
             ELSE IF Len(curves) = 4 /\ AllLines(curves)
             THEN [type |-> "rectangle", center |-> BBoxCenter(p),
                   width |-> BBoxWidth(p), height |-> BBoxHeight(p)]
             ELSE IF /\ Len(curves) = 8
                     /\ LineCount(curves) = 4
                     /\ Len(radii) = 4
                     /\ SeqMax(radii) - SeqMin(radii) < RadiiTolerance
             THEN [type |-> "rounded_rect", center |-> BBoxCenter(p),
                   width |-> BBoxWidth(p), height |-> BBoxHeight(p),
                   rounding |-> radii[1]]
             ELSE [type |-> "polygon"]

\* mutant: the first loop is classified however many loops the profile has
analyze_profile_firstLoop(p) ==
    LET info == [shape |-> "polygon",
                 bbox |-> [width |-> BBoxWidth(p), height |-> BBoxHeight(p)],
                 center |-> BBoxCenter(p),
                 is_circle |-> FALSE, is_rectangle |-> FALSE,
                 is_rounded_rect |-> FALSE,
                 radius |-> <<>>, rounding |-> <<>>]
    IN  IF Len(p.loops) = 0 THEN info
        ELSE LET curves == p.loops[1]
             IN  IF Len(curves) = 1 /\ curves[1].kind = "SketchCircle"
                 THEN [info EXCEPT !.is_circle = TRUE, !.shape = "circle",
                                   !.radius = <<curves[1].radius * CM_TO_MM>>]
                 ELSE IF Len(curves) = 4 /\ AllLines(curves)
                 THEN [info EXCEPT !.is_rectangle = TRUE, !.shape = "rectangle"]
                 ELSE info

\* src/exporter/analyzers.py:70-130 (the profile_obj back reference is left out)
analyze_profile(p) ==
    LET info == [shape |-> "polygon",
                 bbox |-> [width |-> BBoxWidth(p), height |-> BBoxHeight(p)],
                 center |-> BBoxCenter(p),
                 is_circle |-> FALSE, is_rectangle |-> FALSE,
                 is_rounded_rect |-> FALSE,
                 radius |-> <<>>, rounding |-> <<>>]
    IN  IF Len(p.loops) # 1 THEN info
        ELSE LET curves == p.loops[1]
                 radii == ArcRadiiOf(curves)
             IN  IF Len(curves) = 1
                 THEN IF curves[1].kind = "SketchCircle"
                      THEN [info EXCEPT !.is_circle = TRUE, !.shape = "circle",
                                        !.radius = <<curves[1].radius * CM_TO_MM>>]
                      ELSE info
                 ELSE IF Len(curves) = 4
                 THEN IF AllLines(curves)
                      THEN [info EXCEPT !.is_rectangle = TRUE, !.shape = "rectangle"]
                      ELSE info
                 ELSE IF Len(curves) = 8
                 THEN IF /\ LineCount(curves) = 4
                         /\ Len(radii) = 4
                         /\ SeqMax(radii) - SeqMin(radii) < RadiiTolerance
                      THEN [info EXCEPT !.is_rounded_rect = TRUE,
                                        !.shape = "rounded_rect",
                                        !.rounding = <<radii[1]>>]
                      ELSE info
                 ELSE info

\* the classifier specification: both classifiers are applied to one profile
InitShape ==
    /\ timeline = <<>>
    /\ pc = "idle"
    /\ i = 1
    /\ idx = 1
    /\ features_data = <<>>
    /\ feature_to_body_name = EmptyBodyNames
    /\ body_modifiers = EmptyModifierTable
    /\ scad_code = <<>>
    /\ current_ops = EmptyOps
    /\ default_modifiers = ZeroModifiers
    /\ gen_calls = <<>>
    /\ profile \in Profiles
    /\ shape = [detected |-> <<>>, analyzed |-> <<>>]
    /\ AuxIdle

DetectShape ==
    /\ shape.detected = <<>>
    /\ shape' = [shape EXCEPT !.detected = <<detect_shape_type(profile)>>]
    /\ UNCHANGED <<timelineVars, profile, auxVars>>

AnalyzeProfile ==
    /\ shape.analyzed = <<>>
    /\ shape' = [shape EXCEPT !.analyzed = <<analyze_profile(profile)>>]
    /\ UNCHANGED <<timelineVars, profile, auxVars>>

NextShape == DetectShape \/ AnalyzeProfile

SpecShape == InitShape /\ [][NextShape]_vars

(***************************************************************************)
(* Properties of the tree assembly.                                        *)
(***************************************************************************)
IsComment(l) == l.kind \in {"// Error analyzing", "// Error generating"}

\* the lines of the boolean tree: what follows the error comments
TreeLines == SelectSeq(scad_code, LAMBDA l : ~IsComment(l))

\* the tree is the tail of the returned lines
TreeIsTail ==
    LET t == TreeLines
    IN  SubSeq(scad_code, Len(scad_code) - Len(t) + 1, Len(scad_code)) = t

\* the features whose fragments a bucket holds
FragmentsOf(bucket) == {bucket[j].feat : j \in 1..Len(bucket)}

LinesOfKind(lines, kind) == {j \in 1..Len(lines) : lines[j].kind = kind}

\* C1: with a non-empty difference bucket the tree is one difference block:
\* the opening line, then the union bucket nested in a union block (present
\* exactly when the union bucket is non-empty), then the difference bucket,
\* then the closing brace; every bucket line sits at its place, once.
C1_DifferenceBlock ==
    (pc = "done" /\ current_ops.difference # <<>>) =>
        LET t == TreeLines
            U == current_ops.union
            D == current_ops.difference
            off == IF U # <<>> THEN Len(U) + 2 ELSE 0
        IN  /\ TreeIsTail
            /\ Len(t) = 1 + off + Len(D) + 1
            /\ t[1] = Line(0, "difference() {", 0, 0)
            /\ t[Len(t)] = Line(0, "}", 0, 0)
            /\ LinesOfKind(t, "difference() {") = {1}
            /\ LinesOfKind(t, "union() {") = IF U # <<>> THEN {2} ELSE {}
            /\ LinesOfKind(t, "}") = IF U # <<>> THEN {Len(U) + 3, Len(t)} ELSE {Len(t)}
            /\ U # <<>> => /\ t[2] = Line(1, "union() {", 0, 0)
                           /\ t[Len(U) + 3] = Line(1, "}", 0, 0)
            /\ \A j \in 1..Len(U) : t[2 + j] = Line(2, "code", U[j].feat, U[j].k)
            /\ \A j \in 1..Len(D) : t[1 + off + j] = Line(1, "code", D[j].feat, D[j].k)
            /\ FragmentsOf(U) \cap FragmentsOf(D) = {}

C1_Witness ==
    /\ pc = "done"
    /\ Len(current_ops.difference) >= 2
    /\ Len(current_ops.union) >= 2

IsWrapped == TreeLines # <<>> /\ TreeLines[1].kind = "union() {"

\* C2, as claimed: with an empty difference bucket the union bucket is wrapped
\* in a union block exactly when it holds more than 3 fragments, a fragment
\* being the code generated for one feature.
C2_WrapByFragmentCount ==
    (pc = "done" /\ current_ops.difference = <<>> /\ current_ops.union # <<>>) =>
        (IsWrapped <=> Cardinality(FragmentsOf(current_ops.union)) > 3)

\* C2, amended: with an empty difference bucket the union bucket is wrapped in
\* a union block exactly when it holds more than 3 lines; so more than 3
\* fragments are always wrapped, and fewer are left unwrapped, as they are,
\* only while they hold at most 3 lines together.
C2_WrapByLineCount ==
    (pc = "done" /\ current_ops.difference = <<>> /\ current_ops.union # <<>>) =>
        LET t == TreeLines
            U == current_ops.union
        IN  /\ TreeIsTail
            /\ IsWrapped <=> Len(U) > 3
            /\ Cardinality(FragmentsOf(U)) > 3 => IsWrapped
            /\ IsWrapped =>
                /\ Len(t) = Len(U) + 2
                /\ t[1] = Line(0, "union() {", 0, 0)
                /\ t[Len(t)] = Line(0, "}", 0, 0)
                /\ \A j \in 1..Len(U) : t[1 + j] = Line(1, "code", U[j].feat, U[j].k)
            /\ ~IsWrapped => t = U

C2_Witness ==
    /\ pc = "done"
    /\ current_ops.difference = <<>>
    /\ Cardinality(FragmentsOf(current_ops.union)) = 4
    /\ IsWrapped

(***************************************************************************)
(* Properties of the two passes.                                           *)
(***************************************************************************)
Geometry == {"Extrude", "Revolve", "Hole"}

\* the feature's analysis raises out of its analyzer, or its generator raises
Failing(n) ==
    \/ timeline[n].kind \in {"Extrude", "Revolve"} /\ timeline[n].raises = "analysis"
    \/ timeline[n].kind \in Geometry /\ timeline[n].raises = "generate"

CommentsFor(n) == {j \in 1..Len(scad_code) : IsComment(scad_code[j]) /\ scad_code[j].feat = n}

\* the positions of the returned lines that hold line k of feature n's fragment
CodeAt(n, k) ==
    {j \in 1..Len(scad_code) :
        scad_code[j].kind = "code" /\ scad_code[j].feat = n /\ scad_code[j].k = k}

CodeFor(n) == {j \in 1..Len(scad_code) : scad_code[j].kind = "code" /\ scad_code[j].feat = n}

IsIntersectExtrude(item) == item.kind = "Extrude" /\ item.operation = "Intersect"

FailingFeatureSkipped(n) ==
    Failing(n) => Cardinality(CommentsFor(n)) = 1 /\ CodeFor(n) = {}

\* C3, as claimed: the run completes whatever raises; a failing feature leaves
\* exactly one comment and no geometry, and every Extrude, Revolve and Hole
\* that does not fail has its geometry in the returned script.
C3_EveryFeatureContributes ==
    /\ pc # "done" => ENABLED Next
    /\ pc = "done" =>
        \A n \in 1..Len(timeline) :
            /\ FailingFeatureSkipped(n)
            /\ (timeline[n].kind \in Geometry /\ ~Failing(n)) =>
                \A k \in 1..timeline[n].nlines : Cardinality(CodeAt(n, k)) = 1

\* C3, amended: the run completes whatever raises; a failing feature leaves
\* exactly one comment and no geometry, and every Extrude, Revolve and Hole
\* that does not fail has its geometry in the returned script, except an
\* Extrude of operation intersection, whose fragment is not emitted.
C3_EveryRoutedFeatureContributes ==
    /\ pc # "done" => ENABLED Next
    /\ pc = "done" =>
        \A n \in 1..Len(timeline) :
            /\ FailingFeatureSkipped(n)
            /\ (timeline[n].kind \in Geometry /\ ~Failing(n)
                    /\ ~IsIntersectExtrude(timeline[n])) =>
                \A k \in 1..timeline[n].nlines : Cardinality(CodeAt(n, k)) = 1

\* a 3-feature timeline whose 2nd feature throws during analysis
C3_Witness ==
    /\ pc = "done"
    /\ Len(timeline) = 3
    /\ timeline[2].raises = "analysis" /\ Failing(2)
    /\ Cardinality(CommentsFor(2)) = 1
    /\ CodeFor(1) # {} /\ CodeFor(3) # {}

\* the raw value and the bodies of a Fillet / Chamfer: those of its edge set
TouchedBodies(item) == UNION {item.edgeSets[j].bodies : j \in 1..Len(item.edgeSets)}
ModifierValue(item) == item.edgeSets[1].value * CM_TO_MM

ModifierField(item) == IF item.kind = "Fillet" THEN "rounding" ELSE "chamfer"

Pass1Over == pc \in {"pass2", "done"}

\* C4: after pass 1 every Fillet (Chamfer) is merged into the entry of every
\* body it touches, is no entry of the feature list and left no error comment.
C4_ModifiersMerged ==
    Pass1Over =>
        \A n \in 1..Len(timeline) :
            timeline[n].kind \in {"Fillet", "Chamfer"} =>
                /\ \A b \in TouchedBodies(timeline[n]) :
                      /\ b \in DOMAIN body_modifiers
                      /\ body_modifiers[b][ModifierField(timeline[n])]
                            >= ModifierValue(timeline[n])
                /\ \A j \in 1..Len(features_data) : features_data[j].entity # n
                /\ CommentsFor(n) = {}

\* the values of the Fillets (Chamfers) of the timeline that touch body b
ValuesOn(b, kind) ==
    {ModifierValue(timeline[n]) : n \in {m \in 1..Len(timeline) :
        timeline[m].kind = kind /\ b \in TouchedBodies(timeline[m])}}

SetMax(S) == CHOOSE m \in S : \A x \in S : x <= m

\* C5: after pass 1 the accumulated rounding (chamfer) of a body is the
\* maximum over the Fillets (Chamfers) touching it, wherever they stand in
\* the timeline.
C5_MaxOfValues ==
    Pass1Over =>
        \A b \in Bodies :
            /\ ValuesOn(b, "Fillet") # {} =>
                  /\ b \in DOMAIN body_modifiers
                  /\ body_modifiers[b].rounding = SetMax(ValuesOn(b, "Fillet"))
            /\ ValuesOn(b, "Chamfer") # {} =>
                  /\ b \in DOMAIN body_modifiers
                  /\ body_modifiers[b].chamfer = SetMax(ValuesOn(b, "Chamfer"))

\* C6: no step removes an entry of the modifier table or lowers its rounding
\* or chamfer, and no step of pass 2 changes the table or the default record.
C6_TableMonotonic ==
    [][/\ \A b \in DOMAIN body_modifiers :
            /\ b \in DOMAIN body_modifiers'
            /\ body_modifiers'[b].rounding >= body_modifiers[b].rounding
            /\ body_modifiers'[b].chamfer >= body_modifiers[b].chamfer
       /\ pc = "pass2" =>
            /\ body_modifiers' = body_modifiers
            /\ default_modifiers' = default_modifiers]_vars

\* pass 2 has generated a feature without a body while the table has entries
C6_Witness ==
    /\ pc = "pass2"
    /\ idx > 1
    /\ DOMAIN body_modifiers # {}
    /\ \E j \in 1..(idx - 1) : j \notin DOMAIN feature_to_body_name

\* the bucket the claim gives a feature
ClaimedBucket(item) ==
    CASE item.kind = "Revolve" -> "union"
      [] item.kind = "Hole" -> "difference"
      [] item.kind = "Extrude" /\ item.operation \in {"NewBody", "Join"} -> "union"
      [] item.kind = "Extrude" /\ item.operation = "Cut" -> "difference"
      [] item.kind = "Extrude" /\ item.operation = "Intersect" -> "intersection"
      [] OTHER -> "union"

BucketNames == {"union", "difference", "intersection"}

\* the positions of bucket b that hold line k of feature n's fragment
InBucket(b, n, k) ==
    {j \in 1..Len(current_ops[b]) : current_ops[b][j].feat = n /\ current_ops[b][j].k = k}

\* C7: every fragment generated so far is in exactly one bucket, once, and it
\* is the bucket of its feature: Extrude by operation (an unrecognised one as
\* union), Revolve always union, Hole always difference.
C7_Routing ==
    /\ \A b \in BucketNames : \A j \in 1..Len(current_ops[b]) :
            ClaimedBucket(timeline[current_ops[b][j].feat]) = b
    /\ \A pos \in 1..Len(features_data) :
            LET n == features_data[pos].entity
            IN  (pos < idx /\ timeline[n].raises # "generate") =>
                    \A k \in 1..timeline[n].nlines :
                        /\ Cardinality(InBucket(ClaimedBucket(timeline[n]), n, k)) = 1
                        /\ \A b \in BucketNames \ {ClaimedBucket(timeline[n])} :
                                InBucket(b, n, k) = {}

C7_Witness ==
    /\ pc = "done"
    /\ \E j \in 1..Len(current_ops.union) :
            LET item == timeline[current_ops.union[j].feat]
            IN  item.kind = "Extrude" /\ item.operation = "NewComponent"
    /\ \E j \in 1..Len(current_ops.union) :
            LET item == timeline[current_ops.union[j].feat]
            IN  item.kind = "Revolve" /\ item.operation = "Cut"
    /\ \E j \in 1..Len(current_ops.difference) :
            timeline[current_ops.difference[j].feat].kind = "Hole"

\* the accumulated modifiers of the body of features_data[pos]
AccumulatedFor(pos) ==
    LET b == BodyNameOf(feature_to_body_name, pos)
    IN  IF b \in DOMAIN body_modifiers THEN body_modifiers[b] ELSE ZeroModifiers

\* C8: every Extrude, Revolve and Hole is generated with the accumulated
\* rounding and chamfer of its body as input (zero without an entry).
C8_GeneratedWithModifiers ==
    \A pos \in 1..Len(gen_calls) :
        /\ gen_calls[pos].rounding = AccumulatedFor(pos).rounding
        /\ gen_calls[pos].chamfer = AccumulatedFor(pos).chamfer

IntersectFeatures == {n \in 1..Len(timeline) : IsIntersectExtrude(timeline[n])}

\* C9, as claimed: an intersection Extrude leaves no trace in the returned
\* lines, so timelines that differ only in such features return the same lines.
C9_IntersectLeavesNoLine ==
    pc = "done" =>
        \A j \in 1..Len(scad_code) : scad_code[j].feat \notin IntersectFeatures

\* C9, amended: the fragments routed to the intersection bucket are collected
\* there and never appear in the returned lines; an intersection Extrude adds
\* to the returned lines only the error comment of its own failure.
C9_IntersectLeavesNoGeometry ==
    pc = "done" =>
        /\ \A j \in 1..Len(scad_code) :
                scad_code[j].feat \in IntersectFeatures => IsComment(scad_code[j])
        /\ \A n \in IntersectFeatures :
                /\ Cardinality(CommentsFor(n)) = IF Failing(n) THEN 1 ELSE 0
                /\ ~Failing(n) =>
                      \A k \in 1..timeline[n].nlines :
                          Cardinality(InBucket("intersection", n, k)) = 1

C9_Witness ==
    /\ pc = "done"
    /\ current_ops.intersection # <<>>
    /\ current_ops.union # <<>>
    /\ current_ops.difference # <<>>

(***************************************************************************)
(* Properties of the shape classifiers.                                    *)
(***************************************************************************)
ShapeTypes == {"circle", "rectangle", "rounded_rect", "polygon"}

SingleLoop == Len(profile.loops) = 1

KindCount(loop, kind) == Cardinality({j \in 1..Len(loop) : loop[j].kind = kind})

CircleRule ==
    /\ SingleLoop
    /\ Len(profile.loops[1]) = 1
    /\ profile.loops[1][1].kind = "SketchCircle"

RectangleRule ==
    /\ SingleLoop
    /\ Len(profile.loops[1]) = 4
    /\ KindCount(profile.loops[1], "SketchLine") = 4

\* 4 lines and 4 arcs whose radii, in mm, lie within 0.01 of each other
RoundedRectRule ==
    /\ SingleLoop
    /\ Len(profile.loops[1]) = 8
    /\ KindCount(profile.loops[1], "SketchLine") = 4
    /\ KindCount(profile.loops[1], "SketchArc") = 4
    /\ \A a, b \in {c \in {profile.loops[1][j] : j \in 1..8} : c.kind = "SketchArc"} :
            (a.radius - b.radius) * CM_TO_MM < Scale \div 100

\* the square of side 10 mm centred at the origin, in raw cm
SquareOfSideTen == <<0 - Scale \div 2, 0 - Scale \div 2, Scale \div 2, Scale \div 2>>

\* what the claim says of a result of type ty with the given box and centre
ClassifiedAsClaimed(ty, width, height, center) ==
    /\ ty \in ShapeTypes
    /\ ty = "circle" <=> CircleRule
    /\ ty = "rectangle" <=> RectangleRule
    /\ ty = "polygon" <=> ~(CircleRule \/ RectangleRule \/ RoundedRectRule)
    /\ Len(profile.loops) > 1 => ty = "polygon"
    /\ ty = "rectangle" =>
        /\ width = (profile.bbox[3] - profile.bbox[1]) * CM_TO_MM
        /\ height = (profile.bbox[4] - profile.bbox[2]) * CM_TO_MM
        /\ 2 * center[1] = (profile.bbox[1] + profile.bbox[3]) * CM_TO_MM
        /\ 2 * center[2] = (profile.bbox[2] + profile.bbox[4]) * CM_TO_MM
        /\ profile.bbox = SquareOfSideTen =>
            width = 10 * Scale /\ height = 10 * Scale /\ center = <<0, 0>>

\* C10: each classifier gives every profile exactly one of the four types:
\* circle exactly for a single loop of one circle, rectangle exactly for a
\* single loop of 4 lines, with width, height and centre of the bounding box,
\* polygon for several loops and whenever no rule matches.
C10_ClassifierTotal ==
    /\ shape.detected # <<>> =>
        LET r == shape.detected[1]
        IN  IF r.type = "rectangle"
            THEN ClassifiedAsClaimed(r.type, r.width, r.height, r.center)
            ELSE ClassifiedAsClaimed(r.type, 0, 0, <<0, 0>>)
    /\ shape.analyzed # <<>> =>
        LET r == shape.analyzed[1]
        IN  /\ ClassifiedAsClaimed(r.shape, r.bbox.width, r.bbox.height, r.center)
            /\ r.is_circle <=> r.shape = "circle"
            /\ r.is_rectangle <=> r.shape = "rectangle"
            /\ r.is_rounded_rect <=> r.shape = "rounded_rect"

C10_Witness ==
    /\ RectangleRule
    /\ profile.bbox = SquareOfSideTen
    /\ shape.analyzed # <<>>
    /\ shape.detected =
        <<[type |-> "rectangle", center |-> <<0, 0>>,
           width |-> 10 * Scale, height |-> 10 * Scale]>>

(***************************************************************************)
(* The rounded rectangle rule.                                             *)
(***************************************************************************)
\* the profile is one loop of 8 curves, 4 of them lines and 4 of them arcs
FourLinesFourArcs ==
    /\ SingleLoop
    /\ Len(profile.loops[1]) = 8
    /\ KindCount(profile.loops[1], "SketchLine") = 4
    /\ KindCount(profile.loops[1], "SketchArc") = 4

\* the radii of the arcs of the profile in mm, in loop order
RadiiInMM ==
    LET arcs == SelectSeq(profile.loops[1], LAMBDA c : c.kind = "SketchArc")
    IN  [j \in 1..Len(arcs) |-> arcs[j].radius * 10]

\* largest radius minus smallest radius, in mm
Spread(radii) ==
    LET rs == {radii[j] : j \in 1..Len(radii)}
    IN  CHOOSE d \in {a - b : a, b \in rs} : \A a, b \in rs : a - b <= d

\* what the claim says of a result of type ty with rounding option ro
RoundedAsClaimed(ty, ro) ==
    LET radii == RadiiInMM
    IN  /\ ty = "rounded_rect" <=> 100 * Spread(radii) < Scale
        /\ 100 * Spread(radii) >= Scale => ty = "polygon"
        /\ ty = "rounded_rect" =>
            /\ Len(ro) = 1
            /\ ro[1] = radii[1]
            /\ \A j \in 1..4 : 100 * (ro[1] - radii[j]) < Scale
            /\ \A j \in 1..4 : 100 * (radii[j] - ro[1]) < Scale
            /\ radii = <<2 * Scale, 2 * Scale, 2 * Scale + 490, 2 * Scale>>
                    => ro[1] = 2 * Scale
        /\ ty # "rounded_rect" => ro = <<>>

\* C11: a single loop of 8 curves, 4 lines and 4 arcs, is a rounded_rect
\* exactly when the largest and the smallest arc radius, in mm, differ by
\* less than 0.01; its rounding is then the radius of the first arc, which
\* every arc radius is within 0.01 of (2.0, 2.0, 2.0049, 2.0 give 2.0);
\* with a spread of 0.01 or more it is a polygon.  Both classifiers agree.
C11_RoundedRect ==
    FourLinesFourArcs =>
        /\ shape.detected # <<>> =>
            LET r == shape.detected[1]
            IN  RoundedAsClaimed(r.type,
                    IF "rounding" \in DOMAIN r THEN <<r.rounding>> ELSE <<>>)
        /\ shape.analyzed # <<>> =>
            LET r == shape.analyzed[1]
            IN  /\ RoundedAsClaimed(r.shape, r.rounding)
                /\ r.is_rounded_rect <=> r.shape = "rounded_rect"

\* the claim's example, classified by both classifiers
C11_Witness ==
    /\ FourLinesFourArcs
    /\ RadiiInMM = <<2 * Scale, 2 * Scale, 2 * Scale + 490, 2 * Scale>>
    /\ shape.detected # <<>>
    /\ shape.detected[1].type = "rounded_rect"
    /\ shape.detected[1].rounding = 2 * Scale
    /\ shape.analyzed # <<>>
    /\ shape.analyzed[1].rounding = <<2 * Scale>>

\* a spread of exactly 0.01 is reached and falls through to polygon
C11_BoundaryReached ==
    /\ FourLinesFourArcs
    /\ 100 * Spread(RadiiInMM) = Scale
    /\ shape.detected # <<>>
    /\ shape.detected[1].type = "polygon"

(***************************************************************************)
(* remove_duplicate_points (src/profile_utils.py).                         *)
(***************************************************************************)
MaxPoints == 3

\* tolerance: float = 0.001
DedupTolerance == Scale \div 1000

\* points in mm: x of 0, 0.0008, 0.001 and 0.002, y of 0 and 0.0007
PointInputs ==
    {<<x, y>> : x \in {0, (8 * Scale) \div 10000, Scale \div 1000, Scale \div 500},
                y \in {0, (7 * Scale) \div 10000}}

PointSeqs == UNION {[1..n -> PointInputs] : n \in 0..MaxPoints}

\* math.sqrt(dx**2 + dy**2) > tolerance, both sides squared
FartherThan(p, q, tolerance) ==
    (p[1] - q[1]) ^ 2 + (p[2] - q[2]) ^ 2 > tolerance ^ 2

\* mutant: each point is compared with the input point before it
RECURSIVE KeptIndexes_previousInput(_, _)
KeptIndexes_previousInput(pts, n) ==
    IF n = 1 THEN <<1>>
    ELSE LET kept == KeptIndexes_previousInput(pts, n - 1)
         IN  IF FartherThan(pts[n], pts[n - 1], DedupTolerance)
             THEN Append(kept, n)
             ELSE kept

\* the positions in pts of the points in cleaned after the loop has seen the
\* first n points: the point is compared with cleaned[-1]
RECURSIVE KeptIndexes(_, _)
KeptIndexes(pts, n) ==
    IF n = 1 THEN <<1>>
    ELSE LET kept == KeptIndexes(pts, n - 1)
             last == pts[kept[Len(kept)]]
         IN  IF FartherThan(pts[n], last, DedupTolerance)
             THEN Append(kept, n)
             ELSE kept

remove_duplicate_points(pts) ==
    IF pts = <<>> THEN pts
    ELSE LET kept == KeptIndexes(pts, Len(pts))
         IN  [k \in 1..Len(kept) |-> pts[kept[k]]]

\* no run, no profile: the state the smaller specifications leave alone
TimelineIdle ==
    /\ timeline = <<>>
    /\ pc = "idle"
    /\ i = 1
    /\ idx = 1
    /\ features_data = <<>>
    /\ feature_to_body_name = EmptyBodyNames
    /\ body_modifiers = EmptyModifierTable
    /\ scad_code = <<>>
    /\ current_ops = EmptyOps
    /\ default_modifiers = ZeroModifiers
    /\ gen_calls = <<>>

ShapeIdle == profile = NoProfile /\ shape = NoShape

InitDedup ==
    /\ TimelineIdle
    /\ ShapeIdle
    /\ FormatIdle /\ UnitsIdle /\ HandlerIdle /\ LaterIdle
    /\ points \in PointSeqs
    /\ cleaned = <<>>

\* one call; cleaned holds the returned list
RemoveDuplicates ==
    /\ cleaned = <<>>
    /\ cleaned' = <<remove_duplicate_points(points)>>
    /\ UNCHANGED <<timelineVars, profile, shape, points, number, text,
                   lengths, stored, handler, files,
                   laterVars>>

NextDedup == RemoveDuplicates

SpecDedup == InitDedup /\ [][NextDedup]_vars

\* the two points are at most 0.001 mm apart
Near(p, q) ==
    LET thousandth == Scale \div 1000
    IN  (p[1] - q[1]) * (p[1] - q[1]) + (p[2] - q[2]) * (p[2] - q[2])
            <= thousandth * thousandth

\* the input positions whose points the returned list holds
KeptSet ==
    LET kept == KeptIndexes(points, Len(points))
    IN  {kept[k] : k \in 1..Len(kept)}

\* C12 as stated: of two consecutive input points at most 0.001 apart one
\* is dropped, and two consecutive input points more than 0.001 apart are
\* both kept (they are neighbours in the result), in every input sequence.
C12_ConsecutivePairs ==
    (cleaned # <<>> /\ points # <<>>) =>
        \A j \in 1..(Len(points) - 1) :
            /\ Near(points[j], points[j + 1]) => ~({j, j + 1} \subseteq KeptSet)
            /\ ~Near(points[j], points[j + 1]) =>
                    \E k \in 1..(Len(cleaned[1]) - 1) :
                        /\ cleaned[1][k] = points[j]
                        /\ cleaned[1][k + 1] = points[j + 1]

\* the input position of the nearest kept point before position j
LastKeptBefore(K, j) == CHOOSE k \in K : k < j /\ \A m \in K : m < j => m <= k

\* the set of positions the rule of the last kept point keeps
RuleOfLastKept(K) ==
    /\ 1 \in K
    /\ \A j \in 2..Len(points) :
        j \in K <=> ~Near(points[j], points[LastKeptBefore(K, j)])

\* the points at the positions K, in input order
PointsAt(K) ==
    LET RECURSIVE Upto(_)
        Upto(n) == IF n = 0 THEN <<>>
                   ELSE IF n \in K THEN Append(Upto(n - 1), points[n])
                   ELSE Upto(n - 1)
    IN  Upto(Len(points))

\* C12: the first point is kept and every later point is kept exactly when
\* it is more than 0.001 from the last kept point before it; the result is
\* those points in input order.  So two consecutive input points at most
\* 0.001 apart are never both kept, two consecutive input points more than
\* 0.001 apart are both kept when the first of them is kept, and
\* neighbours in the result are more than 0.001 apart.
C12_LastKeptPoint ==
    cleaned # <<>> =>
        IF points = <<>> THEN cleaned[1] = <<>>
        ELSE /\ \E K \in SUBSET (1..Len(points)) :
                    RuleOfLastKept(K) /\ cleaned[1] = PointsAt(K)
             /\ \A j \in 1..(Len(points) - 1) :
                    /\ Near(points[j], points[j + 1]) =>
                            ~({j, j + 1} \subseteq KeptSet)
                    /\ (j \in KeptSet /\ ~Near(points[j], points[j + 1])) =>
                            j + 1 \in KeptSet
             /\ \A k \in 1..(Len(cleaned[1]) - 1) :
                    ~Near(cleaned[1][k], cleaned[1][k + 1])

\* a run of three points, each within 0.001 of the one before it, whose
\* third point is more than 0.001 from the first: two points are returned
C12_Witness ==
    /\ Len(points) = 3
    /\ Near(points[1], points[2])
    /\ Near(points[2], points[3])
    /\ ~Near(points[1], points[3])
    /\ cleaned = <<<<points[1], points[3]>>>>

(***************************************************************************)
(* format_value (src/exporter/utils.py).  A text is a sequence of          *)
(* characters; a number n stands for the float n / Scale.                  *)
(***************************************************************************)
MaxWhole == 2

\* precision: int = 4
FormatPrecision == 4

\* abs(value - round(value)) < 0.0001
SnapTolerance == Scale \div 10000

DigitChars == <<"0", "1", "2", "3", "4", "5", "6", "7", "8", "9">>

Abs(x) == IF x < 0 THEN 0 - x ELSE x

\* the decimal digits of a natural number
RECURSIVE Digits(_)
Digits(n) ==
    IF n < 10 THEN <<DigitChars[n + 1]>>
    ELSE Append(Digits(n \div 10), DigitChars[(n % 10) + 1])

\* str(int)
Str(n) == IF n < 0 THEN <<"-">> \o Digits(0 - n) ELSE Digits(n)

\* the last `width` decimal digits of n, zeros included
RECURSIVE PaddedDigits(_, _)
PaddedDigits(n, width) ==
    IF width = 0 THEN <<>>
    ELSE Append(PaddedDigits(n \div 10, width - 1), DigitChars[(n % 10) + 1])

\* round(value): the nearest whole number, a tie goes to the even one
Round(v) ==
    LET floor == v \div Scale
        rest == v - floor * Scale
    IN  IF 2 * rest < Scale THEN floor
        ELSE IF 2 * rest > Scale THEN floor + 1
        ELSE IF floor % 2 = 0 THEN floor ELSE floor + 1

\* f"{value:.{precision}f}": sign, whole part, point, precision digits.  The
\* digits are those of the double; for a value whose next decimal is a lone
\* 5 the double lies above or below it, and up tells which.
FixedPoint(v, precision, up) ==
    LET unit == Scale \div (10 ^ precision)
        a == Abs(v)
        low == a \div unit
        rest == a % unit
        q == IF 2 * rest > unit \/ (2 * rest = unit /\ up) THEN low + 1 ELSE low
    IN  (IF v < 0 THEN <<"-">> ELSE <<>>)
        \o Digits(q \div (10 ^ precision)) \o <<".">>
        \o PaddedDigits(q % (10 ^ precision), precision)

\* str.rstrip(ch)
RECURSIVE RStrip(_, _)
RStrip(t, ch) ==
    IF t # <<>> /\ t[Len(t)] = ch THEN RStrip(SubSeq(t, 1, Len(t) - 1), ch)
    ELSE t

\* The comparison with 0.0001 is made on doubles.  Of the values exactly
\* 0.0001 away from a whole number, the doubles of 0.9999, 1.0001, 1.9999,
\* 4.0001, 4.9999 and 5.0001 (and their negatives) pass it; those of
\* 0.0001, 2.0001, 2.9999, 3.0001 and 3.9999 do not.
EdgePasses ==
    {Scale - SnapTolerance, Scale + SnapTolerance, 2 * Scale - SnapTolerance,
     4 * Scale + SnapTolerance, 5 * Scale - SnapTolerance,
     5 * Scale + SnapTolerance}

IsWhole(v) ==
    LET off == Abs(v - Round(v) * Scale)
    IN  off < SnapTolerance \/ (off = SnapTolerance /\ Abs(v) \in EdgePasses)

\* mutant: the trailing zeros are not stripped
format_value_keepZeros(v, up) ==
    IF IsWhole(v) THEN Str(Round(v))
    ELSE RStrip(FixedPoint(v, FormatPrecision, up), ".")

\* mutant: the whole-number test is left out
format_value_noSnap(v, up) ==
    RStrip(RStrip(FixedPoint(v, FormatPrecision, up), "0"), ".")

format_value(v, up) ==
    IF IsWhole(v) THEN Str(Round(v))
    ELSE RStrip(RStrip(FixedPoint(v, FormatPrecision, up), "0"), ".")

\* float(text) of a text of digits with an optional sign and fraction
DigitValue(c) == CHOOSE d \in 0..9 : DigitChars[d + 1] = c

RECURSIVE Natural(_)
Natural(t) ==
    IF t = <<>> THEN 0
    ELSE 10 * Natural(SubSeq(t, 1, Len(t) - 1)) + DigitValue(t[Len(t)])

HasPoint(t) == \E k \in 1..Len(t) : t[k] = "."

ParseFloat(t) ==
    LET neg == t # <<>> /\ t[1] = "-"
        body == IF neg THEN Tail(t) ELSE t
        dot == IF HasPoint(body)
               THEN CHOOSE k \in 1..Len(body) : body[k] = "."
               ELSE Len(body) + 1
        whole == SubSeq(body, 1, dot - 1)
        frac == SubSeq(body, dot + 1, Len(body))
        mag == Natural(whole) * Scale + (Natural(frac) * Scale) \div (10 ^ Len(frac))
    IN  IF neg THEN 0 - mag ELSE mag

\* offsets from a whole number, in 1 / Scale: everything within 0.00015,
\* and 0.05, 0.12345, 0.25, 0.33333, 0.5, 0.99986, 0.9999
FormatOffsets ==
    ((0 - 15)..15)
    \cup {Scale \div 20, 12345, Scale \div 4, Scale \div 3, Scale \div 2,
          Scale - 14, Scale - 10}

FormatInputs ==
    {n * Scale + d : n \in (0 - MaxWhole)..MaxWhole, d \in FormatOffsets}

InitFormat ==
    /\ TimelineIdle
    /\ ShapeIdle
    /\ DedupIdle /\ UnitsIdle /\ HandlerIdle /\ LaterIdle
    /\ number \in FormatInputs
    /\ text = <<>>

\* format_value(value)
FormatValue ==
    /\ text = <<>>
    /\ \E up \in BOOLEAN : text' = <<format_value(number, up)>>
    /\ UNCHANGED <<timelineVars, profile, shape, points, cleaned, number,
                   lengths, stored, handler, files,
                   laterVars>>

\* format_value(float(s)) of the text s returned before
FormatParsed ==
    /\ Len(text) = 1
    /\ \E up \in BOOLEAN :
            text' = Append(text, format_value(ParseFloat(text[1]), up))
    /\ UNCHANGED <<timelineVars, profile, shape, points, cleaned, number,
                   lengths, stored, handler, files,
                   laterVars>>

NextFormat == FormatValue \/ FormatParsed

SpecFormat == InitFormat /\ [][NextFormat]_vars

\* the distance from number to the nearest whole number, in 1 / Scale
WholeNear(v) ==
    CHOOSE n \in (0 - MaxWhole - 2)..(MaxWhole + 2) :
        \A m \in (0 - MaxWhole - 2)..(MaxWhole + 2) :
            Abs(v - n * Scale) <= Abs(v - m * Scale)

FractionDigits(t) ==
    IF HasPoint(t) THEN Len(t) - (CHOOSE k \in 1..Len(t) : t[k] = ".") ELSE 0

\* C13: format_value gives the bare whole number when the value is less
\* than 0.0001 from it, and otherwise (more than 0.0001 away) a text with a
\* point and at most 4 fraction digits that reads back as the value rounded
\* to 4 decimals; 3.0 gives "3" and 2.5 gives "2.5"; the text never ends in
\* a point or in a fraction zero and is never "-0".
C13_FormatValue ==
    text # <<>> =>
        LET t == text[1]
            n == WholeNear(number)
            off == Abs(number - n * Scale)
        IN  /\ 10000 * off < Scale => t = Str(n)
            /\ 10000 * off > Scale =>
                /\ HasPoint(t)
                /\ FractionDigits(t) \in 1..4
                /\ 20000 * Abs(ParseFloat(t) - number) <= Scale
            /\ ~HasPoint(t) => (ParseFloat(t) = n * Scale /\ 10000 * off <= Scale)
            /\ t # <<>>
            /\ t[Len(t)] # "."
            /\ HasPoint(t) => t[Len(t)] # "0"
            /\ t # <<"-", "0">>
            /\ number = 3 * Scale => t = <<"3">>
            /\ 2 * number = 5 * Scale => t = <<"2", ".", "5">>

\* 2.5 was rendered, and so was a value just below zero
C13_Witness ==
    /\ 2 * number = 5 * Scale
    /\ text # <<>>
    /\ text[1] = <<"2", ".", "5">>

C13_NegativeSnap ==
    /\ number = 0 - 4
    /\ text # <<>>
    /\ text[1] = <<"0">>

\* C14 as stated: formatting the parsed text of a formatted value gives the
\* same text again, for every value.
C14_Idempotent ==
    Len(text) = 2 => text[2] = text[1]

\* 1.00014 is rendered "1.0001", and 1.0001 is rendered "1"
C14_Reached ==
    /\ number = Scale + 14
    /\ text = << <<"1", ".", "0", "0", "0", "1">>, <<"1">> >>

(***************************************************************************)
(* Unit conversion on the ingestion paths: extract_parameters and          *)
(* _get_param_or_value (src/exporter/core.py), the analyzers               *)
(* (src/exporter/analyzers.py), extract_profile_polygon                    *)
(* (src/profile_utils.py).                                                 *)
(***************************************************************************)
\* raw host lengths in cm: -0.5, 0.1, 0.25, 3.00003
RawLengths == {0 - Scale \div 2, Scale \div 10, Scale \div 4, 3 * Scale + 3}

\* the extent definitions of a feature
ExtentKinds == {"Distance", "ThroughAll", "Symmetric"}

\* what the host holds: two raw lengths a and b, used as a value, as a
\* point <<a, b>> or as a centre and a radius; the kind of the extent; and
\* whether the expression of the value mentions the user parameter "w"
HostLengths ==
    [a : RawLengths, b : RawLengths, extent : ExtentKinds,
     mentions : SUBSET {"w"}]

\* result['depth'] = 50, and 200 for a through-all hole
DefaultHoleDepth == 50 * Scale
ThroughAllDepth == 200 * Scale

\* mutant: the stored parameter value is converted twice
extract_parameters_twice(h) ==
    Put(<<>>, "w", [name |-> "w", value |-> h.a * CM_TO_MM * CM_TO_MM])

\* core.py:46-62 for the one user parameter "w" of raw value a
extract_parameters(h) ==
    Put(<<>>, "w", [name |-> "w", value |-> h.a * CM_TO_MM])

\* core.py:64-73: the name of a parameter the expression mentions, or the
\* text of the converted value
get_param_or_value(parameters, fusion_value, mentions, up) ==
    LET value_mm == fusion_value * CM_TO_MM
        named == {n \in DOMAIN parameters : n \in mentions}
    IN  IF named # {} THEN [name |-> parameters[CHOOSE n \in named : TRUE].name]
        ELSE [text |-> format_value(value_mm, up)]

\* analyzers.py:159-196: height, plane_origin and the raw sketch transform
ExtrudeLengths(h) ==
    [height |-> IF h.extent = "Distance" THEN <<h.a * CM_TO_MM>> ELSE <<>>,
     plane_origin |-> <<h.a * CM_TO_MM, h.b * CM_TO_MM, 0 * CM_TO_MM>>,
     sketch_transform |-> [origin |-> <<h.a, h.b, 0>>]]

\* analyzers.py:278-291: diameter, depth and start position of a hole
HoleLengths(h) ==
    [diameter |-> h.a * CM_TO_MM,
     depth |-> IF h.extent = "Distance" THEN h.b * CM_TO_MM
               ELSE IF h.extent = "ThroughAll" THEN ThroughAllDepth
               ELSE DefaultHoleDepth,
     start_pos |-> <<h.a * CM_TO_MM, h.b * CM_TO_MM, 0 * CM_TO_MM>>]

\* analyzers.py:331-335, 357-361: radius of a fillet, distance of a chamfer
EdgeLengths(h) ==
    [radius |-> FirstEdgeSetValue(Fillet(<<EdgeSet(TRUE, h.a, {"Body1"})>>)),
     distance |-> FirstEdgeSetValue(Chamfer(<<EdgeSet(TRUE, h.b, {"Body1"})>>))]

\* profile_utils.py:129-157: the start point of a line at <<a, b>>, and the
\* first point (angle 0) of an arc or circle of centre <<a, b>> and radius
\* |b|: x = center_x + radius * cos(0), y = center_y + radius * sin(0)
PolygonPoints(h) ==
    [line |-> <<h.a * CM_TO_MM, h.b * CM_TO_MM>>,
     arc |-> <<h.a * CM_TO_MM + Abs(h.b) * CM_TO_MM * 1,
               h.b * CM_TO_MM + Abs(h.b) * CM_TO_MM * 0>>]

InitUnits ==
    /\ TimelineIdle
    /\ ShapeIdle
    /\ DedupIdle /\ FormatIdle /\ HandlerIdle /\ LaterIdle
    /\ lengths \in HostLengths
    /\ stored = <<>>

\* the path has not stored its values yet
Ingest(path, result) ==
    /\ path \notin DOMAIN stored
    /\ stored' = Put(stored, path, result)
    /\ UNCHANGED <<timelineVars, profile, shape, points, cleaned, number, text,
                   lengths, handler, files,
                   laterVars>>

\* one disjunct per ingestion path; _get_param_or_value is handed the raw
\* length b and the parameters extracted so far
NextUnits ==
    \/ Ingest("parameters", extract_parameters(lengths))
    \/ \E up \in BOOLEAN :
            Ingest("param_or_value",
                   get_param_or_value(
                       IF "parameters" \in DOMAIN stored THEN stored["parameters"]
                       ELSE <<>>,
                       lengths.b, lengths.mentions, up))
    \/ Ingest("extrude", ExtrudeLengths(lengths))
    \/ Ingest("hole", HoleLengths(lengths))
    \/ Ingest("edges", EdgeLengths(lengths))
    \/ Ingest("polygon", PolygonPoints(lengths))

SpecUnits == InitUnits /\ [][NextUnits]_vars

\* v is the raw length once multiplied by 10
ConvertedOnce(v, rawLength) == v = 10 * rawLength

Has(path) == path \in DOMAIN stored

Opens(l) == l.kind \in {"difference() {", "union() {"}
Closes(l) == l.kind = "}"

\* the number of blocks open after the first n returned lines; Unbalanced
\* once a closing brace had no block to close
Unbalanced == 0 - 1

RECURSIVE OpenAfter(_)
OpenAfter(n) ==
    IF n = 0 THEN 0
    ELSE LET before == OpenAfter(n - 1)
         IN  IF before = Unbalanced THEN Unbalanced
             ELSE IF Opens(scad_code[n]) THEN before + 1
             ELSE IF Closes(scad_code[n]) THEN before - 1
             ELSE before

\* the fragment of feature n is in the script whole, in one piece and once,
\* or not at all
WholeOrAbsent(n) ==
    \/ CodeFor(n) = {}
    \/ \E first \in 1..Len(scad_code) :
        /\ CodeFor(n) = first..(first + timeline[n].nlines - 1)
        /\ \A k \in 1..timeline[n].nlines :
            /\ scad_code[first + k - 1].k = k
            /\ scad_code[first + k - 1].indent = scad_code[first].indent

\* C16: whatever the buckets hold and whichever features fail, the returned
\* lines are complete: every block the tree assembly opens is closed, in
\* nested order and at the indentation of its depth, no closing brace comes
\* without an open block, and every fragment is in the script whole or not
\* at all, not at all when its generation failed.
C16_ScriptComplete ==
    pc = "done" =>
        /\ \A n \in 0..Len(scad_code) : OpenAfter(n) # Unbalanced
        /\ OpenAfter(Len(scad_code)) = 0
        /\ \A n \in 1..Len(scad_code) :
            IF Closes(scad_code[n]) THEN scad_code[n].indent = OpenAfter(n)
            ELSE scad_code[n].indent = OpenAfter(n - 1)
        /\ \A n \in 1..Len(timeline) :
            /\ WholeOrAbsent(n)
            /\ (timeline[n].kind \in Geometry /\ timeline[n].raises = "generate")
                    => CodeFor(n) = {}

\* a script with both blocks open at once, a failed generation and a
\* fragment of several lines
C16_Witness ==
    /\ pc = "done"
    /\ \E n \in 1..Len(scad_code) : OpenAfter(n) = 2
    /\ \E n \in 1..Len(timeline) :
        timeline[n].kind \in Geometry /\ timeline[n].raises = "generate"
    /\ \E n \in 1..Len(timeline) : Cardinality(CodeFor(n)) > 1

(***************************************************************************)
(* The kind of key that identifies a body.                                 *)
(***************************************************************************)
\* the body keys the analysis of a Fillet / Chamfer item reports, under
\* whichever of the two key names its result has
ReportedBodyKeys(item) ==
    LET info == IF item.kind = "Fillet" THEN analyze_fillet_feature(item)
                ELSE analyze_chamfer_feature(item)
    IN  IF "affected_body_names" \in DOMAIN info THEN info["affected_body_names"]
        ELSE info["affected_bodies"]

\* C17: body names are the only body keys of a run: the bodies recorded for
\* the Extrude / Revolve features, the keys of the modifier table, and the
\* keys the analysis of every Fillet / Chamfer that pass 1 has handled
\* reports are all body names, none is an entity token.
C17_BodyNameKeys ==
    /\ \A pos \in DOMAIN feature_to_body_name : feature_to_body_name[pos] \in Bodies
    /\ DOMAIN body_modifiers \subseteq Bodies
    /\ \A n \in 1..Len(timeline) :
        (n < i /\ timeline[n].kind \in {"Fillet", "Chamfer"}
               /\ ~AnalysisRaises(timeline[n])) =>
            ReportedBodyKeys(timeline[n]) \subseteq Bodies

(***************************************************************************)
(* The phases of a run.                                                    *)
(***************************************************************************)
PhaseRank(p) ==
    CASE p = "idle" -> 0
      [] p = "pass1" -> 1
      [] p = "pass2" -> 2
      [] p = "done" -> 3

\* where the run stands: nothing is generated before pass 1 has visited
\* every timeline entry; in pass 2 the entries of the feature list before
\* idx, and only those, have been generated, each once and in order; the
\* tree is there only when every entry has been generated
PhaseState ==
    /\ pc \in {"idle", "pass1"} =>
        /\ gen_calls = <<>>
        /\ i \in 1..(Len(timeline) + 1)
        /\ \A j \in 1..Len(features_data) : features_data[j].entity < i
    /\ pc \in {"pass2", "done"} =>
        /\ i = Len(timeline) + 1
        /\ Len(gen_calls) = idx - 1
        /\ idx \in 1..(Len(features_data) + 1)
        /\ \A j \in 1..Len(gen_calls) : gen_calls[j].feat = features_data[j].entity
        /\ \A j, k \in 1..Len(features_data) :
                j < k => features_data[j].entity < features_data[k].entity
    /\ pc = "done" => idx = Len(features_data) + 1
    /\ pc # "done" => TreeLines = <<>>

\* one step: the phase stays or moves to the next one; pass 1 visits the
\* next timeline entry; pass 2 generates the next entry of the feature
\* list; entering the last phase is the one step that appends the tree;
\* a finished run changes nothing more
PhaseStep ==
    /\ PhaseRank(pc') \in {PhaseRank(pc), PhaseRank(pc) + 1}
    /\ i' # i => (pc = "pass1" /\ pc' = "pass1" /\ i' = i + 1)
    /\ (pc = "pass1" /\ pc' = "pass1") => i' = i + 1
    /\ features_data' # features_data => (pc = "pass1" /\ pc' = "pass1")
    /\ gen_calls' # gen_calls =>
        /\ pc = "pass2" /\ pc' = "pass2"
        /\ Len(gen_calls') = Len(gen_calls) + 1
        /\ SubSeq(gen_calls', 1, Len(gen_calls)) = gen_calls
        /\ idx' = idx + 1
    /\ (pc = "pass2" /\ pc' = "pass2") => Len(gen_calls') = Len(gen_calls) + 1
    /\ TreeLines' # TreeLines => (pc = "pass2" /\ pc' = "done")
    /\ pc = "done" => UNCHANGED vars

\* C18: a run goes through its phases forward only: pass 1 visits every
\* timeline entry once, in order, before anything is generated; pass 2
\* generates every entry of the feature list once, in order; the tree is
\* assembled in the one step that ends the run, after the last generation.
C18_PhasesForward == [](PhaseState) /\ [][PhaseStep]_vars

\* a finished run of three entries with two generated features
C18_Witness ==
    /\ pc = "done"
    /\ Len(timeline) = 3
    /\ Len(gen_calls) = 2
    /\ TreeLines # <<>>

(***************************************************************************)
(* Profiles that cannot be classified.                                     *)
(***************************************************************************)
\* Extrude and Revolve features whose profile raises while it is analysed,
\* as a single Profile and inside a collection, next to features that
\* analyse well
ProfileFailureInputs ==
    {Extrude("NewBody", <<"Body1">>, "profile", 1),
     Extrude("Join", <<"Body1">>, "profiles", 1),
     Revolve("NewBody", <<"Body2">>, "profile", 1),
     Revolve("Join", <<"Body2">>, "profiles", 1),
     Extrude("NewBody", <<"Body1">>, "none", 1),
     Hole("none", 1)}

InitProfileFailure == InitRun(Timelines(ProfileFailureInputs, MaxTimeline))

SpecProfileFailure == InitProfileFailure /\ [][Next]_vars

UnreadableProfile(item) ==
    item.kind \in {"Extrude", "Revolve"} /\ item.raises \in {"profile", "profiles"}

\* C19: a feature whose profile cannot be classified is still an entry of
\* the feature list, with the profile recorded (as a polygon), still has
\* its fragment in the script, and leaves no error comment.
C19_FeatureKept ==
    pc = "done" =>
        \A n \in 1..Len(timeline) :
            UnreadableProfile(timeline[n]) =>
                /\ \E j \in 1..Len(features_data) :
                    /\ features_data[j].entity = n
                    /\ Len(features_data[j].info.profiles) = 1
                /\ CodeFor(n) # {}
                /\ CommentsFor(n) = {}

\* the feature whose single profile raises is dropped with a comment
C19_Dropped ==
    /\ pc = "done"
    /\ Len(timeline) = 1
    /\ timeline[1] = Extrude("NewBody", <<"Body1">>, "profile", 1)
    /\ features_data = <<>>
    /\ Len(scad_code) = 1
    /\ scad_code[1].kind = "// Error analyzing"

\* the feature whose collection holds the raising profile is kept, without
\* any profile
C19_ProfileLost ==
    /\ pc = "done"
    /\ Len(timeline) = 1
    /\ timeline[1] = Extrude("Join", <<"Body1">>, "profiles", 1)
    /\ Len(features_data) = 1
    /\ features_data[1].info.profiles = <<>>

(***************************************************************************)
(* The export command: ExportCommandExecuteHandler.notify                  *)
(* (src/ui/handlers.py:29-85).                                             *)
(***************************************************************************)
\* the step of notify at which an exception is raised, if any: the file
\* dialog, export() while it builds the header, extracts the parameters or
\* processes the timeline, the write of the script file, export_debug_json()
\* while it reads the parameters or the timeline, the write of the debug file
Faults ==
    {"none", "dialog", "header", "parameters", "timeline", "write_scad",
     "debug_parameters", "debug_features", "write_json"}

\* what notify meets: whether there is an active design, how the file
\* dialog ends, and the fault
HandlerInputs ==
    [pc : {"entry"}, design : BOOLEAN, dialog : {"DialogOK", "DialogCancel"},
     fault : Faults, message : {"none"}]

\* filepath, and filepath.replace('.scad', '_debug.json')
FilePath == "out.scad"
DebugFilePath == "out_debug.json"

InitExport ==
    /\ TimelineIdle
    /\ ShapeIdle
    /\ DedupIdle /\ FormatIdle /\ UnitsIdle /\ LaterIdle
    /\ handler \in HandlerInputs
    /\ files = <<>>

\* the except branch of lines 83-85
ExportFailed(h) == [h EXCEPT !.pc = "returned", !.message = "Export failed"]

\* a step that touches no file: it raises at its fault, or goes on
HandlerStep(fault, next) ==
    /\ handler' = IF handler.fault = fault THEN ExportFailed(handler)
                  ELSE [handler EXCEPT !.pc = next]
    /\ UNCHANGED <<timelineVars, profile, shape, points, cleaned, number, text,
                   lengths, stored, files,
                   laterVars>>

\* with open(path, 'w') as f: ...; when it raises the file was not created,
\* or was created and holds a part of the content
WriteFile(fault, next, path, content) ==
    /\ IF handler.fault = fault
       THEN /\ handler' = ExportFailed(handler)
            /\ files' \in {files, Put(files, path, "partial")}
       ELSE /\ handler' = [handler EXCEPT !.pc = next]
            /\ files' = Put(files, path, content)
    /\ UNCHANGED <<timelineVars, profile, shape, points, cleaned, number, text,
                   lengths, stored,
                   laterVars>>

\* lines 31-35
CheckDesign ==
    /\ handler.pc = "entry"
    /\ handler' = IF handler.design THEN [handler EXCEPT !.pc = "dialog"]
                  ELSE [handler EXCEPT !.pc = "returned",
                                       !.message = "No active design"]
    /\ UNCHANGED <<timelineVars, profile, shape, points, cleaned, number, text,
                   lengths, stored, files,
                   laterVars>>

\* lines 38-55
ShowSaveDialog ==
    /\ handler.pc = "dialog"
    /\ handler' = IF handler.fault = "dialog" THEN ExportFailed(handler)
                  ELSE IF handler.dialog # "DialogOK"
                  THEN [handler EXCEPT !.pc = "returned"]
                  ELSE [handler EXCEPT !.pc = "header"]
    /\ UNCHANGED <<timelineVars, profile, shape, points, cleaned, number, text,
                   lengths, stored, files,
                   laterVars>>

\* lines 58-59, export() of core.py:250-269: generate_header,
\* extract_parameters and generate_parameters_section, process_timeline
ExportHeader ==
    /\ handler.pc = "header"
    /\ HandlerStep("header", "parameters")

ExportParameters ==
    /\ handler.pc = "parameters"
    /\ HandlerStep("parameters", "timeline")

ExportTimeline ==
    /\ handler.pc = "timeline"
    /\ HandlerStep("timeline", "write_scad")

\* lines 62-63
WriteScript ==
    /\ handler.pc = "write_scad"
    /\ WriteFile("write_scad", "debug_parameters", FilePath, "script")

\* lines 66-67, export_debug_json() of core.py:271-477: the parameters are
\* read at 281-291 and the timeline items at 294-299 outside any try block
DebugParameters ==
    /\ handler.pc = "debug_parameters"
    /\ HandlerStep("debug_parameters", "debug_features")

DebugFeatures ==
    /\ handler.pc = "debug_features"
    /\ HandlerStep("debug_features", "write_json")

\* lines 68-69
WriteDebugJson ==
    /\ handler.pc = "write_json"
    /\ WriteFile("write_json", "message", DebugFilePath, "debug record")

\* lines 72-81
ShowSuccess ==
    /\ handler.pc = "message"
    /\ handler' = [handler EXCEPT !.pc = "returned",
                                  !.message = "Export successful"]
    /\ UNCHANGED <<timelineVars, profile, shape, points, cleaned, number, text,
                   lengths, stored, files,
                   laterVars>>

NextExport ==
    \/ CheckDesign
    \/ ShowSaveDialog
    \/ ExportHeader
    \/ ExportParameters
    \/ ExportTimeline
    \/ WriteScript
    \/ DebugParameters
    \/ DebugFeatures
    \/ WriteDebugJson
    \/ ShowSuccess

SpecExport == InitExport /\ [][NextExport]_vars

\* the files of each content on disk
FilesHolding(content) == {p \in DOMAIN files : files[p] = content}

\* C20: when notify has returned, either the script file and the debug
\* record file are both on disk, whole, or there is no file at all; there
\* is no file when there was no active design or the export failed.
C20_AllOrNothing ==
    handler.pc = "returned" =>
        /\ \/ files = <<>>
           \/ /\ FilesHolding("script") # {}
              /\ FilesHolding("debug record") # {}
              /\ FilesHolding("partial") = {}
        /\ (~handler.design \/ handler.message = "Export failed") => files = <<>>

\* the debug record could not be built: the script file stands alone
C20_ScriptOnly ==
    /\ handler.pc = "returned"
    /\ handler.fault = "debug_parameters"
    /\ handler.message = "Export failed"
    /\ files = Put(<<>>, FilePath, "script")

(***************************************************************************)
(* extract_profile_polygon (src/profile_utils.py): the loops of a profile  *)
(* become point lists.  The approximators' returns (the run of points of   *)
(* an arc, circle, ellipse or spline) are inputs of the model.             *)
(***************************************************************************)
\* most curves of a loop handed to extract_profile_polygon
MaxRunCurves == 2

\* points in mm: (0, 0), (0.0008, 0) and (0.002, 0)
RunPoints == {<<0, 0>>, <<(8 * Scale) \div 10000, 0>>, <<Scale \div 500, 0>>}

\* a line with its start point; a curved entity with the run of points its
\* approximator returned
RunCurves ==
    [kind : {"line"}, run : {<<p>> : p \in RunPoints}]
        \cup [kind : {"arc", "circle", "ellipse", "spline"},
              run : {<<p, q>> : p \in RunPoints, q \in RunPoints}]

LineCurves ==
    [kind : {"line"}, run : {<<p>> : p \in {<<0, 0>>, <<Scale \div 500, 0>>}}]

\* profileLoops.item(k): its curves and its isOuter flag
ProfileLoops(curves) ==
    [curves : UNION {[1..n -> curves] : n \in 1..MaxRunCurves},
     isOuter : BOOLEAN]

\* one loop of any curves, or up to MaxLoops loops of lines
PolygonInputs ==
    [1..1 -> ProfileLoops(RunCurves)]
        \cup UNION {[1..n -> ProfileLoops(LineCurves)] : n \in 0..MaxLoops}

\* what one curve adds to points: the start of a line, the whole run of an
\* ellipse, the run without its last point for the other curved entities
CurvePoints(curve) ==
    IF curve.kind = "line" THEN <<curve.run[1]>>
    ELSE IF curve.kind = "ellipse" THEN curve.run
    ELSE SubSeq(curve.run, 1, Len(curve.run) - 1)

\* points after the first n curves of the loop
RECURSIVE LoopPoints(_, _)
LoopPoints(curves, n) ==
    IF n = 0 THEN <<>>
    ELSE LoopPoints(curves, n - 1) \o CurvePoints(curves[n])

\* mutant: duplicates are removed inside each curve's run only
RECURSIVE PerCurveCleaned(_, _)
PerCurveCleaned(curves, n) ==
    IF n = 0 THEN <<>>
    ELSE PerCurveCleaned(curves, n - 1)
            \o remove_duplicate_points(CurvePoints(curves[n]))

CleanedLoop_perCurve(loop) == PerCurveCleaned(loop.curves, Len(loop.curves))

\* cleaned_points = remove_duplicate_points(points)
CleanedLoop(loop) ==
    remove_duplicate_points(LoopPoints(loop.curves, Len(loop.curves)))

\* result after the first n loops
RECURSIVE ExtractLoops(_, _)
ExtractLoops(ls, n) ==
    IF n = 0 THEN [outer |-> <<>>, holes |-> <<>>]
    ELSE LET result == ExtractLoops(ls, n - 1)
         IN  IF ls[n].isOuter
             THEN [result EXCEPT !.outer = CleanedLoop(ls[n])]
             ELSE [result EXCEPT !.holes = Append(@, CleanedLoop(ls[n]))]

extract_profile_polygon(ls) == ExtractLoops(ls, Len(ls))

InitPolygon ==
    /\ TimelineIdle
    /\ ShapeIdle
    /\ DedupIdle /\ FormatIdle /\ UnitsIdle /\ HandlerIdle
    /\ HoleIdle /\ PlaneIdle /\ ExporterIdle /\ DebugIdle /\ RenderIdle
    /\ loops \in PolygonInputs
    /\ polygon = <<>>

\* one call; polygon holds the returned dictionary
ExtractProfilePolygon ==
    /\ polygon = <<>>
    /\ polygon' = <<extract_profile_polygon(loops)>>
    /\ UNCHANGED <<timelineVars, profile, shape, points, cleaned, number, text,
                   lengths, stored, handler, files, loops, holeVars,
                   planeVars, exporterVars, debugVars, renderVars>>

NextPolygon == ExtractProfilePolygon

SpecPolygon == InitPolygon /\ [][NextPolygon]_vars

\* the cleaned point lists of loops n.. in loop order
RECURSIVE CleanedFrom(_, _)
CleanedFrom(ls, n) ==
    IF n > Len(ls) THEN <<>>
    ELSE <<CleanedLoop(ls[n])>> \o CleanedFrom(ls, n + 1)

\* C21: the returned geometry has the profile's first loop as its outer
\* loop and every remaining loop in holes, in loop order, whatever the
\* loops' isOuter flags are
C21_FirstLoopOuter ==
    (polygon # <<>> /\ loops # <<>>) =>
        /\ polygon[1].outer = CleanedLoop(loops[1])
        /\ polygon[1].holes = CleanedFrom(loops, 2)

\* the returned lists, outer first
ReturnedLoops == <<polygon[1].outer>> \o polygon[1].holes

\* C22: in every loop extract_profile_polygon returns, no two consecutive
\* points are within 0.001 of each other, the pairs that span the join
\* between two curves included
C22_NoNearNeighbours ==
    polygon # <<>> =>
        \A l \in 1..Len(ReturnedLoops) :
            \A k \in 1..(Len(ReturnedLoops[l]) - 1) :
                ~Near(ReturnedLoops[l][k], ReturnedLoops[l][k + 1])

\* a loop was returned whose curves met in two points within 0.001, and
\* more than one point of it was kept
C22_Witness ==
    /\ polygon # <<>>
    /\ Len(loops) = 1
    /\ Len(loops[1].curves) = 2
    /\ LET first == CurvePoints(loops[1].curves[1])
           second == CurvePoints(loops[1].curves[2])
       IN  /\ Near(first[Len(first)], second[1])
           /\ first[Len(first)] # second[1]
    /\ Len(ReturnedLoops[IF loops[1].isOuter THEN 1 ELSE 2]) >= 2

(***************************************************************************)
(* Fillets and Chamfers with several edge sets, or with a first edge set   *)
(* that has no constant value (src/exporter/analyzers.py:322-370).         *)
(***************************************************************************)
\* edge sets of every make-up next to a feature that builds the body
EdgeSetInputs ==
    {Extrude("NewBody", <<"Body1">>, "none", 1),
     Fillet(<<EdgeSet(TRUE, Scale \div 10, {"Body1"})>>),
     Fillet(<<EdgeSet(TRUE, Scale \div 10, {"Body1"}),
              EdgeSet(TRUE, (3 * Scale) \div 10, {"Body1"})>>),
     Fillet(<<EdgeSet(FALSE, Scale \div 10, {"Body1"})>>),
     Chamfer(<<EdgeSet(TRUE, Scale \div 10, {"Body1"}),
               EdgeSet(FALSE, (3 * Scale) \div 10, {"Body1"})>>),
     Chamfer(<<EdgeSet(FALSE, Scale \div 10, {"Body1"}),
               EdgeSet(TRUE, (3 * Scale) \div 10, {"Body1"})>>)}

InitEdgeSets == InitRun(Timelines(EdgeSetInputs, MaxTimeline))

SpecEdgeSets == InitEdgeSets /\ [][Next]_vars

\* more than one edge set, or a first edge set without a constant value
MixedEdgeSets(item) ==
    /\ item.kind \in {"Fillet", "Chamfer"}
    /\ \/ Len(item.edgeSets) > 1
       \/ Len(item.edgeSets) > 0 /\ ~item.edgeSets[1].constant

MaxFaces == 2

\* the accessor that raises, if any, in the order the code reads them
HoleStages == <<"holeDiameter", "extentDefinition", "position", "faces", "matrix">>

HoleFaults == {"none"} \cup {HoleStages[k] : k \in 1..Len(HoleStages)}

NoValue == <<>>

\* face.geometry: a Cylinder with its origin (cm), or another surface
HoleFaces ==
    {[geometry |-> "Cylinder", origin |-> <<0, 0, Scale \div 2>>],
     [geometry |-> "Plane", origin |-> NoValue]}

\* a HoleFeature: holeDiameter (cm, a one-element tuple) or None, the kind
\* of its extent definition and the distance (cm), position (cm) or None,
\* the faces, the raising accessor
HoleFeatures ==
    [holeDiameter : {NoValue, <<Scale \div 2>>},
     extent : {"DistanceExtentDefinition", "ThroughAllExtentDefinition",
               "ToEntityExtentDefinition"},
     distance : {(3 * Scale) \div 10},
     position : {NoValue, <<Scale, 2 * Scale, 0>>},
     faces : UNION {[1..n -> HoleFaces] : n \in 0..MaxFaces},
     fault : HoleFaults]

StageOf(name) == CHOOSE k \in 1..Len(HoleStages) : HoleStages[k] = name

\* the first Cylinder among the faces, 0 when there is none
FirstCylinder(faces) ==
    IF \E k \in 1..Len(faces) : faces[k].geometry = "Cylinder"
    THEN CHOOSE k \in 1..Len(faces) :
            /\ faces[k].geometry = "Cylinder"
            /\ \A j \in 1..(k - 1) : faces[j].geometry # "Cylinder"
    ELSE 0

\* the stage at which the try block is left, Len(HoleStages) + 1 when it
\* runs to its end; get_rotation_matrix_from_axis is called for a Cylinder
\* only
HoleFailsAt(feature, fault) ==
    IF fault = "none" \/ (fault = "matrix" /\ FirstCylinder(feature.faces) = 0)
    THEN Len(HoleStages) + 1
    ELSE StageOf(fault)

InMM(point) == [k \in 1..Len(point) |-> point[k] * CM_TO_MM]

\* result when the accessor named by fault raises
HoleFields(feature, fault) ==
    LET failsAt == HoleFailsAt(feature, fault)
        passed(name) == failsAt > StageOf(name)
        cylinder == FirstCylinder(feature.faces)
        start_pos ==
            IF feature.position # NoValue THEN InMM(feature.position)
            ELSE IF cylinder # 0 THEN InMM(feature.faces[cylinder].origin)
            ELSE NoValue
    IN  [type |-> "hole",
         diameter |->
            IF passed("holeDiameter") /\ feature.holeDiameter # NoValue
            THEN feature.holeDiameter[1] * CM_TO_MM
            ELSE 0,
         depth |->
            IF ~passed("extentDefinition") THEN DefaultHoleDepth
            ELSE IF feature.extent = "DistanceExtentDefinition"
                 THEN feature.distance * CM_TO_MM
            ELSE IF feature.extent = "ThroughAllExtentDefinition"
                 THEN ThroughAllDepth
            ELSE DefaultHoleDepth,
         positions |->
            IF passed("matrix") /\ start_pos # NoValue THEN <<start_pos>>
            ELSE <<>>,
         matrix |->
            IF passed("matrix") /\ cylinder # 0 THEN "axis" ELSE "None"]

\* mutant: the fields are filled as if nothing had been raised
HoleDescriptor_ignoringFailure(feature) == HoleFields(feature, "none")

\* analyze_hole_feature(feature)
HoleDescriptor(feature) == HoleFields(feature, feature.fault)

InitHole ==
    /\ TimelineIdle
    /\ ShapeIdle
    /\ DedupIdle /\ FormatIdle /\ UnitsIdle /\ HandlerIdle
    /\ PolygonIdle /\ PlaneIdle /\ ExporterIdle /\ DebugIdle /\ RenderIdle
    /\ hole \in HoleFeatures
    /\ hole_info = <<>>

\* one call; hole_info holds the returned dictionary
AnalyzeHoleFeature ==
    /\ hole_info = <<>>
    /\ hole_info' = <<HoleDescriptor(hole)>>
    /\ UNCHANGED <<timelineVars, profile, shape, points, cleaned, number, text,
                   lengths, stored, handler, files, polygonVars, hole,
                   planeVars, exporterVars, debugVars, renderVars>>

NextHole == AnalyzeHoleFeature

SpecHole == InitHole /\ [][NextHole]_vars

\* the failure left the try block before the named accessor was read
NotReached(name) ==
    /\ hole.fault # "none"
    /\ StageOf(hole.fault) <= StageOf(name)
    /\ hole.fault = "matrix" =>
            \E k \in 1..Len(hole.faces) : hole.faces[k].geometry = "Cylinder"

\* C24: analyze_hole_feature returns a descriptor for every hole feature,
\* whichever accessor raises: its depth is ten times the distance of a
\* distance extent, 200 for a through-all extent and 50 otherwise, and
\* every field not reached before the failure keeps its default (diameter
\* 0, depth 50, no position, no matrix)
C24_HoleTotal ==
    /\ (hole # <<>> /\ hole_info = <<>>) => ENABLED AnalyzeHoleFeature
    /\ hole_info # <<>> =>
        LET result == hole_info[1]
        IN  /\ result.type = "hole"
            /\ result.depth =
                IF NotReached("extentDefinition") THEN 50 * Scale
                ELSE IF hole.extent = "DistanceExtentDefinition"
                     THEN 10 * hole.distance
                ELSE IF hole.extent = "ThroughAllExtentDefinition"
                     THEN 200 * Scale
                ELSE 50 * Scale
            /\ NotReached("holeDiameter") => result.diameter = 0
            /\ NotReached("matrix") =>
                    result.positions = <<>> /\ result.matrix = "None"

\* a descriptor was returned for a feature whose position raised after the
\* diameter and the distance extent had been read
C24_Witness ==
    /\ hole_info # <<>>
    /\ hole.fault = "position"
    /\ hole.extent = "DistanceExtentDefinition"
    /\ hole.holeDiameter # NoValue
    /\ hole.position # NoValue
    /\ hole_info[1].depth = 3 * Scale
    /\ hole_info[1].diameter = 5 * Scale
    /\ hole_info[1].positions = <<>>

(***************************************************************************)
(* The sketch plane of analyze_extrude_feature                             *)
(* (src/exporter/analyzers.py:146-212): defaults, then one try that reads  *)
(* the sketch, its origin and its transform.                               *)
(***************************************************************************)
\* tolerance = 0.001
PlaneTolerance == Scale \div 1000

\* z_axis of the sketch transform: the six axis directions, tilted and
\* diagonal directions, and one whose z is exactly 0.001 below 1
PlaneNormals ==
    {<<0, 0, Scale>>, <<0, 0, 0 - Scale>>, <<0, Scale, 0>>, <<0, 0 - Scale, 0>>,
     <<Scale, 0, 0>>, <<0 - Scale, 0, 0>>,
     <<0, 3162, 99950>>, <<3162, 0, 0 - 99950>>, <<0, 99950, 3162>>,
     <<0 - 99950, 3162, 0>>, <<0, 4471, 99900>>,
     <<0, 70711, 70711>>, <<57735, 57735, 57735>>}

\* the accessor of the try block that raises, if any
PlaneFaults ==
    {"none", "profile", "parentSketch", "origin", "transform",
     "getAsCoordinateSystem"}

\* an ExtrudeFeature as the try block sees it: is there a parent sketch, is
\* there a transform, the sketch origin (cm), the transform's z axis
PlaneFeatures ==
    [hasSketch : BOOLEAN, hasTransform : BOOLEAN,
     origin : {<<Scale, 2 * Scale, 3 * Scale>>},
     z_axis : PlaneNormals,
     fault : PlaneFaults]

\* mutant: only the positive direction of an axis is recognised
NearUnit_positiveOnly(c) == Abs(c - Scale) < PlaneTolerance

\* abs(c - 1) < tolerance or abs(c + 1) < tolerance
NearUnit(c) == Abs(c - Scale) < PlaneTolerance \/ Abs(c + Scale) < PlaneTolerance

\* the if / elif chain over nx, ny, nz
SketchPlaneOf(z_axis) ==
    IF NearUnit(z_axis[3]) THEN "XY"
    ELSE IF NearUnit(z_axis[2]) THEN "XZ"
    ELSE IF NearUnit(z_axis[1]) THEN "YZ"
    ELSE "CUSTOM"

\* the plane fields of the result
PlaneFields(feature) ==
    LET defaults == [sketch_plane |-> "XY", plane_origin |-> <<0, 0, 0>>,
                     plane_normal |-> <<0, 0, Scale>>]
    IN  IF feature.fault \in {"profile", "parentSketch"} \/ ~feature.hasSketch
        THEN defaults
        ELSE IF feature.fault = "origin" THEN defaults
        ELSE LET withOrigin ==
                    [defaults EXCEPT !.plane_origin = InMM(feature.origin)]
             IN  IF feature.fault \in {"transform", "getAsCoordinateSystem"}
                        \/ ~feature.hasTransform
                 THEN withOrigin
                 ELSE [withOrigin EXCEPT
                         !.plane_normal = feature.z_axis,
                         !.sketch_plane = SketchPlaneOf(feature.z_axis)]

InitPlane ==
    /\ TimelineIdle
    /\ ShapeIdle
    /\ DedupIdle /\ FormatIdle /\ UnitsIdle /\ HandlerIdle
    /\ PolygonIdle /\ HoleIdle /\ ExporterIdle /\ DebugIdle /\ RenderIdle
    /\ extrude \in PlaneFeatures
    /\ extrude_info = <<>>

\* the plane part of one call of analyze_extrude_feature
DetectSketchPlane ==
    /\ extrude_info = <<>>
    /\ extrude_info' = <<PlaneFields(extrude)>>
    /\ UNCHANGED <<timelineVars, profile, shape, points, cleaned, number, text,
                   lengths, stored, handler, files, polygonVars, holeVars,
                   extrude, exporterVars, debugVars, renderVars>>

NextPlane == DetectSketchPlane

SpecPlane == InitPlane /\ [][NextPlane]_vars

\* the sketch and its transform were read
PlaneRead ==
    extrude.fault = "none" /\ extrude.hasSketch /\ extrude.hasTransform

\* the component is within 0.001 of 1 or of -1
WithinOfUnit(c) == Abs(Abs(c) - Scale) < Scale \div 1000

\* C25: the plane detection always ends with exactly one label: XY when the
\* z component of the normal is within 0.001 of 1 or -1, otherwise XZ when
\* the y component is, otherwise YZ when the x component is, otherwise
\* CUSTOM; when the sketch or its transform cannot be read the plane is XY
\* with normal (0, 0, 1)
C25_PlaneLabel ==
    /\ (extrude # <<>> /\ extrude_info = <<>>) => ENABLED DetectSketchPlane
    /\ extrude_info # <<>> =>
        LET result == extrude_info[1]
            n == extrude.z_axis
        IN  IF PlaneRead
            THEN /\ result.plane_normal = n
                 /\ result.sketch_plane = "XY" <=> WithinOfUnit(n[3])
                 /\ result.sketch_plane = "XZ" <=>
                        ~WithinOfUnit(n[3]) /\ WithinOfUnit(n[2])
                 /\ result.sketch_plane = "YZ" <=>
                        /\ ~WithinOfUnit(n[3]) /\ ~WithinOfUnit(n[2])
                        /\ WithinOfUnit(n[1])
                 /\ result.sketch_plane = "CUSTOM" <=>
                        /\ ~WithinOfUnit(n[3]) /\ ~WithinOfUnit(n[2])
                        /\ ~WithinOfUnit(n[1])
            ELSE /\ result.sketch_plane = "XY"
                 /\ result.plane_normal = <<0, 0, Scale>>

\* the plane of a sketch whose normal is the negative y axis was labelled
C25_Witness ==
    /\ extrude_info # <<>>
    /\ PlaneRead
    /\ extrude.z_axis = <<0, 0 - Scale, 0>>
    /\ extrude_info[1].sketch_plane = "XZ"

\* the transform of a sketch with a tilted normal could not be read
C25_UnreadWitness ==
    /\ extrude_info # <<>>
    /\ extrude.fault = "getAsCoordinateSystem"
    /\ extrude.hasSketch
    /\ extrude.z_axis = <<0, 70711, 70711>>
    /\ extrude_info[1].sketch_plane = "XY"

(***************************************************************************)
(* Repeated export() calls on one SCADExporter (src/exporter/core.py:27-35, *)
(* 46-62, 250-269).  The exporter holds the live design; the user may edit  *)
(* the design's parameters between two calls.  generate_parameters_section  *)
(* renders one declaration per entry of the dictionary it is given.         *)
(***************************************************************************)
\* most export() calls on one exporter
MaxExports == 3

\* design.userParameters: name -> value (cm); width absent, 1 or 2,
\* height absent or 3
Designs ==
    {d \in UNION {[names -> {Scale, 2 * Scale, 3 * Scale}] :
                    names \in SUBSET {"width", "height"}} :
        /\ "width" \in DOMAIN d => d["width"] \in {Scale, 2 * Scale}
        /\ "height" \in DOMAIN d => d["height"] = 3 * Scale}

\* self.parameters after extract_parameters(): every parameter of the
\* design is written, no entry is removed
ExtractInto(parameters, d) ==
    [name \in DOMAIN parameters \cup DOMAIN d |->
        IF name \in DOMAIN d THEN d[name] * CM_TO_MM ELSE parameters[name]]

\* the parameter section of the script: the declarations rendered
ParametersSection(parameters) == parameters

\* __init__: self.parameters = {}
InitExporter ==
    /\ TimelineIdle
    /\ ShapeIdle
    /\ DedupIdle /\ FormatIdle /\ UnitsIdle /\ HandlerIdle
    /\ PolygonIdle /\ HoleIdle /\ PlaneIdle /\ DebugIdle /\ RenderIdle
    /\ design \in Designs
    /\ exporter = [parameters |-> <<>>, scripts |-> <<>>]

\* export(): the script is recorded with the snapshot it was made from
Export ==
    /\ Len(exporter.scripts) < MaxExports
    /\ LET parameters == ExtractInto(exporter.parameters, design)
       IN  exporter' =
            [parameters |-> parameters,
             scripts |-> Append(exporter.scripts,
                                [snapshot |-> design,
                                 parameters |-> ParametersSection(parameters)])]
    /\ UNCHANGED <<timelineVars, profile, shape, points, cleaned, number, text,
                   lengths, stored, handler, files, polygonVars, holeVars,
                   planeVars, design, debugVars, renderVars>>

\* the user adds, removes or changes parameters after an export
EditDesign ==
    /\ exporter.scripts # <<>>
    /\ Len(exporter.scripts) < MaxExports
    /\ design' \in Designs \ {design}
    /\ UNCHANGED <<timelineVars, profile, shape, points, cleaned, number, text,
                   lengths, stored, handler, files, polygonVars, holeVars,
                   planeVars, exporter, debugVars, renderVars>>

NextExporter == Export \/ EditDesign

SpecExporter == InitExporter /\ [][NextExporter]_vars

\* C26: a script depends on the snapshot it was made from only: it declares
\* the parameters of that snapshot and no others, so two calls on the same
\* snapshot return the same script and a parameter removed before a call
\* is not in that call's script
C26_NoCarriedState ==
    \A k \in 1..Len(exporter.scripts) :
        LET script == exporter.scripts[k]
        IN  /\ DOMAIN script.parameters = DOMAIN script.snapshot
            /\ \A j \in 1..Len(exporter.scripts) :
                exporter.scripts[j].snapshot = script.snapshot =>
                    exporter.scripts[j].parameters = script.parameters

(***************************************************************************)
(* The feature list of export_debug_json (src/exporter/core.py:293-477).   *)
(* An item's details are read inside one try; some reads sit in a nested   *)
(* try of their own.                                                       *)
(***************************************************************************)
\* a timeline item for the debug record: the type of its entity and the
\* read that raises, if any.  "details" is a read guarded by the outer try
\* only (profile, extent, holeDiameter, profiles.count), "nested" a read
\* inside an inner try / except: pass (curve geometry, start and end faces,
\* bodies, the fillet's faces), "edgeSets" the fillet's edge sets
DebugItems ==
    [type : {"ExtrudeFeature"}, fault : {"none", "details", "nested"}]
        \cup [type : {"HoleFeature", "Sketch"}, fault : {"none", "details"}]
        \cup [type : {"FilletFeature"}, fault : {"none", "edgeSets", "nested"}]
        \cup [type : {"RevolveFeature", "None"}, fault : {"none"}]

\* feature_data when the except clauses are through with it
FeatureData(item, n) ==
    [index |-> n,
     type |-> item.type,
     error |-> item.fault = "details",
     details_error |-> item.fault = "edgeSets"]

InitDebug ==
    /\ TimelineIdle
    /\ ShapeIdle
    /\ DedupIdle /\ FormatIdle /\ UnitsIdle /\ HandlerIdle
    /\ PolygonIdle /\ HoleIdle /\ PlaneIdle /\ ExporterIdle /\ RenderIdle
    /\ debug_timeline \in Timelines(DebugItems, MaxTimeline)
    /\ debug_data = [i |-> 1, features |-> <<>>, returned |-> FALSE]

\* one iteration of the loop over the timeline
DebugFeature ==
    /\ debug_data.i <= Len(debug_timeline)
    /\ LET item == debug_timeline[debug_data.i]
       IN  debug_data' =
            [debug_data EXCEPT
                !.i = @ + 1,
                !.features =
                    IF item.type = "None" THEN @
                    ELSE Append(@, FeatureData(item, debug_data.i))]
    /\ UNCHANGED <<timelineVars, profile, shape, points, cleaned, number, text,
                   lengths, stored, handler, files, polygonVars, holeVars,
                   planeVars, exporterVars, debug_timeline, renderVars>>

\* the bodies are read inside try / except: pass, then the record is
\* returned
DebugReturn ==
    /\ debug_data.i = Len(debug_timeline) + 1
    /\ ~debug_data.returned
    /\ debug_data' = [debug_data EXCEPT !.returned = TRUE]
    /\ UNCHANGED <<timelineVars, profile, shape, points, cleaned, number, text,
                   lengths, stored, handler, files, polygonVars, holeVars,
                   planeVars, exporterVars, debug_timeline, renderVars>>

NextDebug == DebugFeature \/ DebugReturn

SpecDebug == InitDebug /\ [][NextDebug]_vars

\* the timeline positions whose entity is not null, in timeline order
RECURSIVE EntityPositions(_)
EntityPositions(n) ==
    IF n = 0 THEN <<>>
    ELSE IF debug_timeline[n].type = "None" THEN EntityPositions(n - 1)
    ELSE Append(EntityPositions(n - 1), n)

\* C27: the returned record has exactly one entry per timeline item with an
\* entity, in timeline order, carrying the item's timeline index; an item
\* whose details could not be read has the failure in its entry's error
\* field
C27_DebugEntries ==
    debug_data.returned =>
        LET positions == EntityPositions(Len(debug_timeline))
        IN  /\ Len(debug_data.features) = Len(positions)
            /\ \A k \in 1..Len(positions) :
                /\ debug_data.features[k].index = positions[k]
                /\ debug_timeline[positions[k]].fault # "none" =>
                        debug_data.features[k].error

(***************************************************************************)
(* Order of the returned lines of process_timeline.                        *)
(***************************************************************************)
\* pass-1 comments, pass-2 comments, then the boolean tree
LineRank(l) ==
    IF l.kind = "// Error analyzing" THEN 1
    ELSE IF l.kind = "// Error generating" THEN 2
    ELSE 3

\* the feature's fragment was generated and its bucket is union or difference
Emitted(n) ==
    /\ timeline[n].kind \in Geometry
    /\ ~Failing(n)
    /\ ClaimedBucket(timeline[n]) \in {"union", "difference"}

\* C28: when process_timeline returns, every line of every generated
\* fragment whose bucket is union or difference is in the script exactly
\* once, the lines of one bucket follow the timeline order of their
\* features, and the pass-1 comments come before the pass-2 comments, which
\* come before the first line of the boolean tree
C28_FragmentOrder ==
    pc = "done" =>
        /\ \A n \in 1..Len(timeline) :
            Emitted(n) =>
                \A k \in 1..timeline[n].nlines : Cardinality(CodeAt(n, k)) = 1
        /\ \A j1, j2 \in 1..Len(scad_code) :
            (/\ j1 < j2
             /\ scad_code[j1].kind = "code" /\ scad_code[j2].kind = "code"
             /\ ClaimedBucket(timeline[scad_code[j1].feat])
                    = ClaimedBucket(timeline[scad_code[j2].feat])) =>
                \/ scad_code[j1].feat < scad_code[j2].feat
                \/ /\ scad_code[j1].feat = scad_code[j2].feat
                   /\ scad_code[j1].k < scad_code[j2].k
        /\ \A j1, j2 \in 1..Len(scad_code) :
            j1 < j2 => LineRank(scad_code[j1]) <= LineRank(scad_code[j2])

\* a run is over with a pass-1 comment, a pass-2 comment and two fragments
\* of one bucket in its script
C28_Witness ==
    /\ pc = "done"
    /\ Len(timeline) = 3
    /\ \E a, b \in 1..3 :
        /\ a < b
        /\ Emitted(a) /\ Emitted(b)
        /\ ClaimedBucket(timeline[a]) = ClaimedBucket(timeline[b])
        /\ CodeFor(a) # {} /\ CodeFor(b) # {}
    /\ \E j \in 1..Len(scad_code) : LineRank(scad_code[j]) = 2

\* a run is over whose script has a comment of each pass
C28_BothComments ==
    /\ pc = "done"
    /\ \E j \in 1..Len(scad_code) : LineRank(scad_code[j]) = 1
    /\ \E j \in 1..Len(scad_code) : LineRank(scad_code[j]) = 2
    /\ \E j \in 1..Len(scad_code) : LineRank(scad_code[j]) = 3

(***************************************************************************)
(* Agreement of the two classifiers.                                       *)
(***************************************************************************)
\* C29: for every profile the shape tag of analyze_profile is the type of
\* detect_shape_type, and for a circle the radius, for a rounded rectangle
\* the rounding, are the same in both results
C29_ClassifiersAgree ==
    (shape.detected # <<>> /\ shape.analyzed # <<>>) =>
        LET d == shape.detected[1]
            a == shape.analyzed[1]
        IN  /\ a.shape = d.type
            /\ d.type = "circle" => a.radius = <<d.radius>>
            /\ d.type = "rounded_rect" => a.rounding = <<d.rounding>>
            /\ d.type \notin {"circle"} => a.radius = <<>>
            /\ d.type \notin {"rounded_rect"} => a.rounding = <<>>

\* both classifiers took a rounded rectangle whose arcs differ within the
\* tolerance
C29_Witness ==
    /\ FourLinesFourArcs
    /\ Spread(RadiiInMM) > 0
    /\ shape.detected # <<>>
    /\ shape.analyzed # <<>>
    /\ shape.detected[1].type = "rounded_rect"
    /\ shape.analyzed[1].shape = "rounded_rect"

\* both classifiers took a profile of two loops, the first a single circle,
\* as a polygon
C29_HoledCircle ==
    /\ Len(profile.loops) = 2
    /\ Len(profile.loops[1]) = 1
    /\ profile.loops[1][1].kind = "SketchCircle"
    /\ shape.detected # <<>>
    /\ shape.analyzed # <<>>
    /\ shape.analyzed[1].shape = "polygon"

(***************************************************************************)
(* The numeric renderers side by side: format_value                        *)
(* (src/exporter/utils.py:18-22), the coordinates of format_polygon_scad   *)
(* and format_polygon_with_holes_scad (src/profile_utils.py:202-253) and   *)
(* the fmt helper of generate_bosl2_shape (src/profile_utils.py:352-353).  *)
(* All of them render one double, so the digits of its .4f text, and with  *)
(* them the direction of a tie, are the same for all.                      *)
(***************************************************************************)
\* f"{x:.{precision}f}".rstrip('0').rstrip('.')
CoordinateText(x, precision, up) ==
    RStrip(RStrip(FixedPoint(x, precision, up), "0"), ".")

\* f"{v:.4f}".rstrip('0').rstrip('.')
fmt(v, up) == RStrip(RStrip(FixedPoint(v, 4, up), "0"), ".")

InitRender ==
    /\ TimelineIdle
    /\ ShapeIdle
    /\ DedupIdle /\ FormatIdle /\ UnitsIdle /\ HandlerIdle
    /\ PolygonIdle /\ HoleIdle /\ PlaneIdle /\ ExporterIdle /\ DebugIdle
    /\ coordinate \in [v : FormatInputs, up : BOOLEAN]
    /\ rendered = <<>>

\* the renderer returns its text for the value
Render(renderer, t) ==
    /\ renderer \notin DOMAIN rendered
    /\ rendered' = Put(rendered, renderer, t)
    /\ UNCHANGED <<timelineVars, profile, shape, points, cleaned, number, text,
                   lengths, stored, handler, files, polygonVars, holeVars,
                   planeVars, exporterVars, debugVars, coordinate>>

\* each renderer is called with the value, the polygon renderers with their
\* default precision
NextRender ==
    \/ Render("format_value", format_value(coordinate.v, coordinate.up))
    \/ Render("format_polygon_scad",
              CoordinateText(coordinate.v, FormatPrecision, coordinate.up))
    \/ Render("format_polygon_with_holes_scad",
              CoordinateText(coordinate.v, FormatPrecision, coordinate.up))
    \/ Render("fmt", fmt(coordinate.v, coordinate.up))

SpecRender == InitRender /\ [][NextRender]_vars

\* C30: whatever the value, the coordinate text of the two polygon
\* renderers and the text of fmt are the text format_value returns
C30_RenderersAgree ==
    \A r \in DOMAIN rendered :
        "format_value" \in DOMAIN rendered =>
            rendered[r] = rendered["format_value"]

====
